---- MODULE Spec2Model ----
(***************************************************************************)
(* MyWidgets: a to-do widget (desktop_widget.py) and a calendar widget     *)
(* (calendar_widget.py) that share one task file, tasks.json.              *)
(*                                                                         *)
(* Python values are tagged records [t |-> tag, v |-> payload]; a str is   *)
(* a sequence of numbers.  A timestamp string "YYYY-MM-DDTHH:MM:SS" is the *)
(* sequence of its six number groups <<YYYY, MM, DD, HH, MM, SS>>; every   *)
(* other text is a sequence of character codes.                            *)
(***************************************************************************)
EXTENDS Integers, Sequences, FiniteSets, TLC

VARIABLES
    file,        \* content of tasks.json (DATA_FILE / TODO_TASKS)
    todo,        \* the to-do widget process: "off", "running", "crashed"
    tasks,       \* DesktopWidget.tasks
    uuids,       \* number of uuid4() values drawn so far
    now,         \* the wall clock, datetime.now()
    sent,        \* NotificationManager.send calls of the last reminder pass
    last,        \* the last handler that ran, with its argument
    exc,         \* the exception that escaped the last handler ("none" if none)
    rows,        \* the rows of the task list as _populate_tasks built them:
                 \* the positions of their tasks in DesktopWidget.tasks
    cal,         \* the calendar widget process: "off", "running"
    _today,      \* CalendarWidget._today, the cached current date
    _year,       \* CalendarWidget._year, the displayed year
    _month,      \* CalendarWidget._month, the displayed month
    _due_dates,  \* CalendarWidget._due_dates
    _refresh_timer,  \* CalendarWidget._refresh_timer in the current minute:
                 \* "armed" before its timeout, "fired" after it
    grid,        \* the DayCells of CalendarWidget._grid_layout, week by week
    os_env,      \* the operating system: whether winreg and winotify work
    registry,    \* the value names under the Run key of HKEY_CURRENT_USER
    settings,    \* self.settings of the to-do widget and of the calendar
    settings_file,   \* content of each widget's settings.json
    shown,       \* isVisible() of each widget's window
    app,         \* how the widgets were started: "separate" (each by its own
                 \* main) or "launch_all" (both in one QApplication)
    io,          \* the file system under a save in progress: the lock of
                 \* each storage class, the temporary files, the savers and
                 \* a reader of the task file
    audit,       \* history of the to-do widget, kept if audit.on: the task
                 \* file it started from and, for each task in memory, how
                 \* often it was notified as due and how often reopened
    _rebuilding, \* CalendarWidget._rebuilding, the re-entrancy guard
    rebuild_calls    \* the calls of _rebuild_grid on the stack of the GUI
                 \* thread, outermost first, each with its position

todoVars == <<todo, tasks, uuids, sent, exc, rows>>
calVars == <<cal, _today, _year, _month, _due_dates, _refresh_timer, grid>>
osVars == <<os_env, registry, settings, settings_file, shown, app, io>>
rebuildVars == <<_rebuilding, rebuild_calls>>
envVars == <<osVars, audit, rebuildVars>>
vars == <<file, now, last, todoVars, calVars, envVars>>

----------------------------------------------------------------------------
(* Bounds of the model *)

MaxTasks == 2
MaxUuids == 2
MaxTicks == 2

----------------------------------------------------------------------------
(* Python values *)

PyNone == [t |-> "none"]
PyStr(s) == [t |-> "str", v |-> s]
PyBool(b) == [t |-> "bool", v |-> b]
PyInt(n) == [t |-> "int", v |-> n]
PyList(items) == [t |-> "list", v |-> items]
PyDict(m) == [t |-> "dict", v |-> m]

\* bool(x): the truth value Python's `not`, `or` and `if` take of x
Truthy(x) ==
    CASE x.t = "none" -> FALSE
      [] x.t = "bool" -> x.v
      [] x.t = "int"  -> x.v # 0
      [] x.t = "str"  -> Len(x.v) > 0
      [] x.t = "list" -> Len(x.v) > 0
      [] x.t = "dict" -> DOMAIN x.v # {}

\* a or b
Or(a, b) == IF Truthy(a) THEN a ELSE b

\* d.get(k, default) on a dict payload
Get(m, k, default) == IF k \in DOMAIN m THEN m[k] ELSE default

----------------------------------------------------------------------------
(* datetime: [year, month, day, hour, minute, second] *)

IsLeap(y) == (y % 4 = 0) /\ ((y % 100 # 0) \/ (y % 400 = 0))

DaysInMonth(y, m) ==
    IF m = 2 THEN (IF IsLeap(y) THEN 29 ELSE 28)
    ELSE IF m \in {4, 6, 9, 11} THEN 30 ELSE 31

\* days before January 1st of year y
DaysBeforeYear(y) ==
    (y - 1) * 365 + ((y - 1) \div 4) - ((y - 1) \div 100) + ((y - 1) \div 400)

RECURSIVE DaysBeforeMonth(_, _)
DaysBeforeMonth(y, m) ==
    IF m = 1 THEN 0 ELSE DaysBeforeMonth(y, m - 1) + DaysInMonth(y, m - 1)

\* date.toordinal(): January 1st of year 1 is day 1
Ordinal(y, m, d) == DaysBeforeYear(y) + DaysBeforeMonth(y, m) + d

\* date.weekday(): Monday is 0, Sunday is 6
Weekday(y, m, d) == (Ordinal(y, m, d) + 6) % 7

SecondOfDay(dt) == dt.hour * 3600 + dt.minute * 60 + dt.second

\* (a - b).total_seconds()
SecondsBetween(a, b) ==
    (Ordinal(a.year, a.month, a.day) - Ordinal(b.year, b.month, b.day)) * 86400
    + (SecondOfDay(a) - SecondOfDay(b))

\* a >= b on datetimes
DtGE(a, b) == SecondsBetween(a, b) >= 0

\* datetime.date(): the time of day dropped
DateOf(dt) == [year |-> dt.year, month |-> dt.month, day |-> dt.day]

DateLT(a, b) ==
    Ordinal(a.year, a.month, a.day) < Ordinal(b.year, b.month, b.day)

\* dt + timedelta(seconds = n), for 0 <= n < 86400
AddSeconds(dt, n) ==
    LET s == SecondOfDay(dt) + n
        over == s >= 86400
        r == IF over THEN s - 86400 ELSE s
        lastDay == dt.day = DaysInMonth(dt.year, dt.month)
        d == IF ~over THEN dt.day ELSE IF lastDay THEN 1 ELSE dt.day + 1
        m == IF over /\ lastDay
             THEN (IF dt.month = 12 THEN 1 ELSE dt.month + 1) ELSE dt.month
        y == IF over /\ lastDay /\ dt.month = 12 THEN dt.year + 1 ELSE dt.year
    IN [year |-> y, month |-> m, day |-> d,
        hour |-> r \div 3600, minute |-> (r % 3600) \div 60, second |-> r % 60]

\* datetime.isoformat(): the text of a datetime
isoformat(dt) ==
    PyStr(<<dt.year, dt.month, dt.day, dt.hour, dt.minute, dt.second>>)

\* Does datetime.fromisoformat(s) raise ValueError?
IsoValid(s) ==
    /\ Len(s) = 6
    /\ s[1] \in 1..9999
    /\ s[2] \in 1..12
    /\ s[3] >= 1
    /\ s[3] <= DaysInMonth(s[1], s[2])
    /\ s[4] \in 0..23
    /\ s[5] \in 0..59
    /\ s[6] \in 0..59

\* datetime.fromisoformat(s), for a text that parses
fromisoformat(s) ==
    [year |-> s[1], month |-> s[2], day |-> s[3],
     hour |-> s[4], minute |-> s[5], second |-> s[6]]

----------------------------------------------------------------------------
(* Task (desktop_widget.py): a record of the seven attributes *)

\* TC.DEFAULT_LIST_NAME = "Default"
DEFAULT_LIST_NAME == PyStr(<<68, 101, 102>>)

\* str(uuid.uuid4()): the n-th uuid drawn; no two draws are equal, and none
\* equals an id written in a file by hand
Uuid(n) == PyStr(<<900 + n>>)

\* Task.__init__, then the `created` that from_dict or _open_add_dialog leaves
\* in place.  Returns the task and the number of uuids drawn after the call.
NewTask(title, list_name, due, task_id, completed, reminder_sent, created, n) ==
    [task |-> [id            |-> IF Truthy(task_id) THEN task_id ELSE Uuid(n + 1),
               title         |-> title,
               list_name     |-> Or(list_name, DEFAULT_LIST_NAME),
               due           |-> due,
               completed     |-> completed,
               reminder_sent |-> reminder_sent,
               created       |-> created],
     uuids |-> IF Truthy(task_id) THEN n ELSE n + 1]

\* Task.to_dict
to_dict(t) ==
    PyDict([id            |-> t.id,
            title         |-> t.title,
            list_name     |-> t.list_name,
            due           |-> t.due,
            completed     |-> t.completed,
            reminder_sent |-> t.reminder_sent,
            created       |-> t.created])

\* The exception Task.from_dict(d) raises, "none" if it returns
from_dict_exc(d) ==
    IF d.t # "dict" THEN "TypeError"
    ELSE IF "title" \notin DOMAIN d.v \/ "id" \notin DOMAIN d.v THEN "KeyError"
    ELSE "none"

\* from_dict that keeps the `created` Task.__init__ has just set
from_dict_fresh_created(d, clock, n) ==
    NewTask(d.v["title"],
            Get(d.v, "list_name", DEFAULT_LIST_NAME),
            Get(d.v, "due", PyNone),
            d.v["id"],
            Get(d.v, "completed", PyBool(FALSE)),
            Get(d.v, "reminder_sent", PyBool(FALSE)),
            isoformat(clock),
            n)

\* Task.from_dict(d) for a d it accepts, at time clock with n uuids drawn
from_dict(d, clock, n) ==
    NewTask(d.v["title"],
            Get(d.v, "list_name", DEFAULT_LIST_NAME),
            Get(d.v, "due", PyNone),
            d.v["id"],
            Get(d.v, "completed", PyBool(FALSE)),
            Get(d.v, "reminder_sent", PyBool(FALSE)),
            Get(d.v, "created", isoformat(clock)),
            n)

----------------------------------------------------------------------------
(* StorageManager (desktop_widget.py) *)

\* The task file: absent, bytes that are no UTF-8 text, text that is no JSON
\* document, or a JSON document
Missing == [kind |-> "missing"]
BadUtf8 == [kind |-> "badutf8"]
Malformed == [kind |-> "malformed"]
Json(doc) == [kind |-> "json", doc |-> doc]

\* What `for d in x` iterates over; x is a list, a dict or a str
IterItems(x) ==
    CASE x.t = "list" -> x.v
      [] x.t = "str"  -> [i \in 1..Len(x.v) |-> PyStr(<<x.v[i]>>)]
      [] OTHER        -> <<>>

Iterable(x) == x.t \in {"list", "str", "dict"}

\* A loop that leaves out the records without "id" or "title"
RECURSIVE FromDicts_skipping_bad(_, _, _, _)
FromDicts_skipping_bad(items, clock, n, acc) ==
    IF items = <<>> THEN [exc |-> "none", tasks |-> acc, uuids |-> n]
    ELSE LET e == from_dict_exc(Head(items)) IN
         IF e = "KeyError"
         THEN FromDicts_skipping_bad(Tail(items), clock, n, acc)
         ELSE IF e # "none" THEN [exc |-> e, tasks |-> <<>>, uuids |-> n]
         ELSE LET r == from_dict(Head(items), clock, n) IN
              FromDicts_skipping_bad(Tail(items), clock, r.uuids,
                                     Append(acc, r.task))

\* [Task.from_dict(d) for d in items]: stops at the first item that raises
RECURSIVE FromDicts(_, _, _, _)
FromDicts(items, clock, n, acc) ==
    IF items = <<>> THEN [exc |-> "none", tasks |-> acc, uuids |-> n]
    ELSE LET e == from_dict_exc(Head(items)) IN
         IF e # "none" THEN [exc |-> e, tasks |-> <<>>, uuids |-> n]
         ELSE LET r == from_dict(Head(items), clock, n) IN
              FromDicts(Tail(items), clock, r.uuids, Append(acc, r.task))

\* StorageManager.load_tasks(): exc is the exception that escapes it
load_tasks(f, clock, n) ==
    LET empty == [exc |-> "none", tasks |-> <<>>, uuids |-> n] IN
    IF f.kind = "missing" THEN empty
    ELSE IF f.kind = "badutf8" THEN [empty EXCEPT !.exc = "UnicodeDecodeError"]
    ELSE IF f.kind = "malformed" THEN empty          \* json.JSONDecodeError
    ELSE IF f.doc.t # "dict" THEN [empty EXCEPT !.exc = "AttributeError"]
    ELSE LET ts == Get(f.doc.v, "tasks", PyList(<<>>)) IN
         IF ~Iterable(ts) THEN [empty EXCEPT !.exc = "TypeError"]
         ELSE IF ts.t = "dict" /\ DOMAIN ts.v # {}
              THEN [empty EXCEPT !.exc = "TypeError"]  \* its keys are str
         ELSE LET r == FromDicts(IterItems(ts), clock, n, <<>>) IN
              IF r.exc = "KeyError" THEN empty ELSE r

\* What StorageManager.save_tasks(ts) leaves in the task file
save_tasks(ts) ==
    Json(PyDict([tasks |-> PyList([i \in 1..Len(ts) |-> to_dict(ts[i])])]))

----------------------------------------------------------------------------
(* Settings: StorageManager.load_settings / save_settings                 *)
(* (desktop_widget.py) and CalStorage.load_settings / save_settings       *)
(* (calendar_widget.py).  A settings dict is a function from key to value; *)
(* a float is kept in hundredths.                                          *)

PyFloat(hundredths) == [t |-> "float", v |-> hundredths]

DEFAULT_X == 100
DEFAULT_Y == 100
DEFAULT_WIDTH == 320
DEFAULT_HEIGHT == 480
DEFAULT_OPACITY == PyFloat(92)
FONT_SIZE_DEFAULT == 13
DEFAULT_DARK_MODE == PyBool(TRUE)
DEFAULT_STARTUP == PyBool(TRUE)

\* The two storage classes and the widgets they belong to
StorageClasses == {"StorageManager", "CalStorage"}
WidgetOf(cls) == IF cls = "StorageManager" THEN "todo" ELSE "cal"

\* The dict `defaults` at the head of load_settings
SettingsDefaults(cls) ==
    IF cls = "StorageManager"
    THEN [x |-> PyInt(DEFAULT_X), y |-> PyInt(DEFAULT_Y),
          width |-> PyInt(DEFAULT_WIDTH), height |-> PyInt(DEFAULT_HEIGHT),
          dark_mode |-> DEFAULT_DARK_MODE, opacity |-> DEFAULT_OPACITY,
          font_size |-> PyInt(FONT_SIZE_DEFAULT),
          active_list |-> DEFAULT_LIST_NAME, startup |-> DEFAULT_STARTUP,
          all_lists |-> PyList(<<DEFAULT_LIST_NAME>>)]
    ELSE [x |-> PyInt(460), y |-> PyInt(100), width |-> PyInt(380),
          height |-> PyInt(400), dark_mode |-> DEFAULT_DARK_MODE,
          opacity |-> DEFAULT_OPACITY, startup |-> DEFAULT_STARTUP]

\* d.update(m) for two dicts
Updated(d, m) ==
    [k \in DOMAIN d \cup DOMAIN m |-> IF k \in DOMAIN m THEN m[k] ELSE d[k]]

\* The dict key a str of the settings file stands for
KeyName(s) ==
    CASE s = <<120>> -> "x"
      [] s = <<121>> -> "y"
      [] OTHER       -> "other"

\* d.update(items) for a sequence of items, each to be a pair: the exception
\* of the first item that is no pair ends it, the earlier pairs stay set
RECURSIVE UpdatedFromPairs(_, _)
UpdatedFromPairs(d, items) ==
    IF items = <<>> THEN [exc |-> "none", dict |-> d]
    ELSE LET p == Head(items) IN
         IF ~Iterable(p) THEN [exc |-> "TypeError", dict |-> d]
         ELSE IF p.t = "dict" THEN
              IF Cardinality(DOMAIN p.v) # 2
              THEN [exc |-> "ValueError", dict |-> d]
              ELSE [exc |-> "none", dict |-> d]    \* not among the files
         ELSE IF Len(p.v) # 2 THEN [exc |-> "ValueError", dict |-> d]
         ELSE LET kv == IterItems(p) IN
              IF kv[1].t \in {"list", "dict"}
              THEN [exc |-> "TypeError", dict |-> d]      \* unhashable key
              ELSE IF kv[1].t # "str"
              THEN [exc |-> "none", dict |-> d]    \* not among the files
              ELSE UpdatedFromPairs(
                       Updated(d, [k \in {KeyName(kv[1].v)} |-> kv[2]]),
                       Tail(items))

\* defaults.update(loaded) for any JSON value
DictUpdate(d, loaded) ==
    IF loaded.t = "dict" THEN [exc |-> "none", dict |-> Updated(d, loaded.v)]
    ELSE IF ~Iterable(loaded) THEN [exc |-> "TypeError", dict |-> d]
    ELSE UpdatedFromPairs(d, IterItems(loaded))

\* needle in haystack for two str
IsSubstring(needle, haystack) ==
    \E i \in 0..(Len(haystack) - Len(needle)) :
        SubSeq(haystack, i + 1, i + Len(needle)) = needle

\* `if DEFAULT_LIST_NAME not in defaults["all_lists"]: ....insert(0, ...)`
WithDefaultList(d) ==
    LET al == d["all_lists"] IN
    CASE al.t = "list" ->
            IF \E i \in 1..Len(al.v) : al.v[i] = DEFAULT_LIST_NAME
            THEN [exc |-> "none", dict |-> d]
            ELSE [exc |-> "none",
                  dict |-> [d EXCEPT !["all_lists"] =
                                PyList(<<DEFAULT_LIST_NAME>> \o al.v)]]
      [] al.t = "str" ->
            IF IsSubstring(DEFAULT_LIST_NAME.v, al.v)
            THEN [exc |-> "none", dict |-> d]
            ELSE [exc |-> "AttributeError", dict |-> d]
      [] al.t = "dict" ->
            IF "Default" \in DOMAIN al.v
            THEN [exc |-> "none", dict |-> d]
            ELSE [exc |-> "AttributeError", dict |-> d]
      [] OTHER -> [exc |-> "TypeError", dict |-> d]

\* load_settings of either class on the settings file f: the dict returned,
\* or the exception that escapes it
load_settings(cls, f) ==
    LET defaults == SettingsDefaults(cls)
        none == [exc |-> "none", dict |-> defaults] IN
    IF f.kind = "missing" THEN none
    ELSE LET r == IF f.kind = "badutf8"
                  THEN [exc |-> "UnicodeDecodeError", dict |-> defaults]
                  ELSE IF f.kind = "malformed"
                  THEN [exc |-> "JSONDecodeError", dict |-> defaults]
                  ELSE LET u == DictUpdate(defaults, f.doc) IN
                       IF u.exc # "none" \/ cls = "CalStorage" THEN u
                       ELSE WithDefaultList(u.dict) IN
         IF cls = "CalStorage"
         THEN [exc |-> "none", dict |-> r.dict]          \* except Exception
         ELSE IF r.exc \in {"JSONDecodeError", "KeyError"}
         THEN [exc |-> "none", dict |-> r.dict]
         ELSE r

\* What save_settings of either class leaves in its settings file
save_settings(s) == Json(PyDict(s))

----------------------------------------------------------------------------
(* StartupManager (desktop_widget.py, calendar_widget.py): the registry   *)
(* is the set of value names under the Run key                             *)

\* APP_NAME of each module, the value name its StartupManager uses
APP_KEY(w) == IF w = "todo" THEN "DesktopTodo" ELSE "DesktopCalendar"

\* The winreg module: "ok", "denied" (OpenKey with KEY_SET_VALUE raises
\* PermissionError) or "absent" (import winreg raises ImportError; there is
\* no registry)
WinregStates == {"ok", "denied", "absent"}

\* enable that removes an entry it finds
enable_toggling(reg, key, winreg) ==
    IF winreg # "ok" THEN reg
    ELSE IF key \in reg THEN reg \ {key} ELSE reg \cup {key}

\* StartupManager.enable(): every exception is swallowed
enable(reg, key, winreg) == IF winreg = "ok" THEN reg \cup {key} ELSE reg

\* StartupManager.disable(): DeleteValue of an absent name raises, swallowed
disable(reg, key, winreg) == IF winreg = "ok" THEN reg \ {key} ELSE reg

\* StartupManager.is_enabled(): the key is opened for reading
is_enabled(reg, key, winreg) == winreg # "absent" /\ key \in reg

----------------------------------------------------------------------------
(* NotificationManager (desktop_widget.py) *)

REMINDER_EARLY_WARNING_SECONDS == 300
REMINDER_INTERVAL_MS == 60000

\* NoteFor with `<` for `<=` in the early-warning test
NoteFor_strict_window(t, clock) ==
    IF Truthy(t.completed) \/ Truthy(t.reminder_sent) \/ ~Truthy(t.due)
    THEN "none"
    ELSE IF ~IsoValid(t.due.v) THEN "none"
    ELSE LET due_dt == fromisoformat(t.due.v) IN
         IF DtGE(clock, due_dt) THEN "Task Due"
         ELSE IF SecondsBetween(due_dt, clock) < REMINDER_EARLY_WARNING_SECONDS
              THEN "Task Due Soon"
              ELSE "none"

\* NoteFor without the test of `completed`
NoteFor_of_completed(t, clock) ==
    IF Truthy(t.reminder_sent) \/ ~Truthy(t.due)
    THEN "none"
    ELSE IF ~IsoValid(t.due.v) THEN "none"
    ELSE LET due_dt == fromisoformat(t.due.v) IN
         IF DtGE(clock, due_dt) THEN "Task Due"
         ELSE IF SecondsBetween(due_dt, clock) <= REMINDER_EARLY_WARNING_SECONDS
              THEN "Task Due Soon"
              ELSE "none"

\* NoteFor without the test of `reminder_sent`
NoteFor_of_notified(t, clock) ==
    IF Truthy(t.completed) \/ ~Truthy(t.due)
    THEN "none"
    ELSE IF ~IsoValid(t.due.v) THEN "none"
    ELSE LET due_dt == fromisoformat(t.due.v) IN
         IF DtGE(clock, due_dt) THEN "Task Due"
         ELSE IF SecondsBetween(due_dt, clock) <= REMINDER_EARLY_WARNING_SECONDS
              THEN "Task Due Soon"
              ELSE "none"

\* The title of the notification check_and_notify sends for task t at time
\* clock, "none" if it sends nothing
NoteFor(t, clock) ==
    IF Truthy(t.completed) \/ Truthy(t.reminder_sent) \/ ~Truthy(t.due)
    THEN "none"
    ELSE IF ~IsoValid(t.due.v) THEN "none"             \* ValueError: pass
    ELSE LET due_dt == fromisoformat(t.due.v) IN
         IF DtGE(clock, due_dt) THEN "Task Due"
         ELSE IF SecondsBetween(due_dt, clock) <= REMINDER_EARLY_WARNING_SECONDS
              THEN "Task Due Soon"
              ELSE "none"

\* The indices of ts from i on whose task is sent a notification, in order
RECURSIVE Notified(_, _, _)
Notified(ts, clock, i) ==
    IF i > Len(ts) THEN <<>>
    ELSE IF NoteFor(ts[i], clock) = "none" THEN Notified(ts, clock, i + 1)
    ELSE <<[title |-> NoteFor(ts[i], clock), idx |-> i]>>
         \o Notified(ts, clock, i + 1)

\* check_and_notify with the try statement around the loop: the pass ends at
\* the first due text that does not parse
check_and_notify_try_around_loop(ts, clock) ==
    LET bad == {i \in 1..Len(ts) :
                   /\ ~Truthy(ts[i].completed)
                   /\ ~Truthy(ts[i].reminder_sent)
                   /\ Truthy(ts[i].due)
                   /\ ~IsoValid(ts[i].due.v)}
        stop == IF bad = {} THEN Len(ts) + 1
                ELSE CHOOSE i \in bad : \A j \in bad : i <= j
    IN [tasks |-> [i \in 1..Len(ts) |->
                     IF i < stop /\ NoteFor(ts[i], clock) = "Task Due"
                     THEN [ts[i] EXCEPT !.reminder_sent = PyBool(TRUE)]
                     ELSE ts[i]],
        sent  |-> SelectSeq(Notified(ts, clock, 1), LAMBDA c : c.idx < stop)]

\* check_and_notify that forgets to mark the task
check_and_notify_unmarked(ts, clock) ==
    [tasks |-> ts, sent |-> Notified(ts, clock, 1)]

\* NotificationManager.check_and_notify(ts) at time clock: the tasks as it
\* leaves them and the NotificationManager.send calls it makes
check_and_notify(ts, clock) ==
    [tasks |-> [i \in 1..Len(ts) |->
                  IF NoteFor(ts[i], clock) = "Task Due"
                  THEN [ts[i] EXCEPT !.reminder_sent = PyBool(TRUE)]
                  ELSE ts[i]],
     sent  |-> Notified(ts, clock, 1)]

\* The winotify package: "ok", or the exception the body of
\* NotificationManager.send raises: "ImportError" (not installed), "OSError"
\* (the toast cannot be shown), "ValueError"
WinotifyStates == {"ok", "ImportError", "OSError", "ValueError"}

\* The exception that leaves NotificationManager.send: only ImportError is
\* caught there
send_exc(winotify) ==
    IF winotify \in {"ok", "ImportError"} THEN "none" ELSE winotify

\* check_and_notify when send raises e: a ValueError is caught by the
\* `except ValueError` of the loop body, before the task is marked, and the
\* loop goes on; any other exception ends the pass at the first send
check_and_notify_raising(ts, clock, e) ==
    LET calls == Notified(ts, clock, 1) IN
    IF calls = <<>> THEN [tasks |-> ts, sent |-> <<>>, exc |-> "none"]
    ELSE IF e = "ValueError" THEN [tasks |-> ts, sent |-> calls, exc |-> "none"]
    ELSE [tasks |-> ts, sent |-> <<calls[1]>>, exc |-> e]

\* One call of check_and_notify under the winotify package as it is
ReminderPass(ts, clock, winotify) ==
    IF send_exc(winotify) = "none"
    THEN LET r == check_and_notify(ts, clock) IN
         [tasks |-> r.tasks, sent |-> r.sent, exc |-> "none"]
    ELSE check_and_notify_raising(ts, clock, send_exc(winotify))

----------------------------------------------------------------------------
(* DesktopWidget (desktop_widget.py) *)

\* str.strip() on a text of character codes; 32 is the space
RECURSIVE LStrip(_)
LStrip(s) == IF s # <<>> /\ Head(s) = 32 THEN LStrip(Tail(s)) ELSE s

RECURSIVE RStrip(_)
RStrip(s) ==
    IF s # <<>> /\ s[Len(s)] = 32 THEN RStrip(SubSeq(s, 1, Len(s) - 1)) ELSE s

Strip(s) == RStrip(LStrip(s))

\* get_result without str.strip()
get_result_unstripped(text, has_due, due_dt) ==
    [title |-> PyStr(text),
     due   |-> IF has_due THEN isoformat(due_dt) ELSE PyNone]

\* TaskDialog.get_result(): the stripped title and the due text
get_result(text, has_due, due_dt) ==
    [title |-> PyStr(Strip(text)),
     due   |-> IF has_due THEN isoformat(due_dt) ELSE PyNone]

Step(op, arg) == [op |-> op, arg |-> arg, before |-> tasks]

\* The characters of a text: a timestamp text is written out as
\* "YYYY-MM-DDTHH:MM:SS", any other text is its character codes already
Digits2(n) == <<48 + (n \div 10), 48 + (n % 10)>>

Digits4(n) == Digits2(n \div 100) \o Digits2(n % 100)

Chars(s) ==
    IF IsoValid(s)
    THEN Digits4(s[1]) \o <<45>> \o Digits2(s[2]) \o <<45>> \o Digits2(s[3])
         \o <<84>> \o Digits2(s[4]) \o <<58>> \o Digits2(s[5])
         \o <<58>> \o Digits2(s[6])
    ELSE s

\* a < b for two str values: the order of their characters
StrLT(a, b) ==
    LET x == Chars(a)
        y == Chars(b)
        differ == {i \in 1..Len(x) : i <= Len(y) /\ x[i] # y[i]}
    IN IF differ = {} THEN Len(x) < Len(y)
       ELSE LET k == CHOOSE i \in differ : \A j \in differ : i <= j
            IN x[k] < y[k]

\* Task.is_overdue at time clock
is_overdue(t, clock) ==
    IF ~Truthy(t.due) \/ Truthy(t.completed) THEN FALSE
    ELSE IF ~IsoValid(t.due.v) THEN FALSE               \* ValueError
    ELSE ~DtGE(fromisoformat(t.due.v), clock)

\* The sort key of _populate_tasks: (not t.is_overdue, t.due or "9999")
SortKey(t, clock) ==
    [late |-> ~is_overdue(t, clock),
     due  |-> Or(t.due, PyStr(<<57, 57, 57, 57>>)).v]

\* a < b for two sort keys, as tuples compare: False before True, then the
\* due texts
KeyLT(a, b) ==
    \/ ~a.late /\ b.late
    \/ a.late = b.late /\ StrLT(a.due, b.due)

\* sorted(): the positions idxs of ts by their keys; equal keys stay in
\* their order
RECURSIVE sorted(_, _, _, _)
sorted(idxs, ts, clock, acc) ==
    IF idxs = <<>> THEN acc
    ELSE LET k == SortKey(ts[Head(idxs)], clock)
             Later(e) == KeyLT(k, SortKey(ts[e], clock))
             before == SelectSeq(acc, LAMBDA e : ~Later(e))
             after == SelectSeq(acc, LAMBDA e : Later(e))
         IN sorted(Tail(idxs), ts, clock, before \o <<Head(idxs)>> \o after)

\* The rows in the order of the collection
_populate_tasks_unsorted(ts, clock) == [i \in 1..Len(ts) |-> i]

\* DesktopWidget._populate_tasks: the rows it adds, from top to bottom
_populate_tasks(ts, clock) ==
    LET all == [i \in 1..Len(ts) |-> i]
        pending == SelectSeq(all, LAMBDA i : ~Truthy(ts[i].completed))
        done == SelectSeq(all, LAMBDA i : Truthy(ts[i].completed))
    IN sorted(pending, ts, clock, <<>>) \o done

\* The history of the to-do widget when none is kept
NoAudit == [on |-> FALSE, start |-> PyNone, notes |-> <<>>]

\* The history of a task that was just loaded or added
NoNotes == [due_now |-> 0, reopened |-> 0]

\* The history after DesktopWidget.__init__ has read the task file f into ts
AuditLoad(a, f, ts) ==
    IF ~a.on THEN a
    ELSE [a EXCEPT !.start = f, !.notes = [i \in 1..Len(ts) |-> NoNotes]]

\* The history after _open_add_dialog has turned ts into ts2
AuditAdd(a, ts, ts2) ==
    IF ~a.on \/ Len(ts2) = Len(ts) THEN a
    ELSE [a EXCEPT !.notes = Append(@, NoNotes)]

\* The history after _toggle_task has turned ts into ts2: a task that was
\* completed and is open has been reopened
AuditToggle(a, ts, ts2) ==
    IF ~a.on THEN a
    ELSE [a EXCEPT !.notes =
            [i \in 1..Len(ts) |->
               IF Truthy(ts[i].completed) /\ ~Truthy(ts2[i].completed)
               THEN [@[i] EXCEPT !.reopened = @ + 1]
               ELSE @[i]]]

\* The history after _delete_task(task_id) on ts: that of the tasks kept
AuditDelete(a, ts, task_id) ==
    IF ~a.on THEN a
    ELSE LET kept == SelectSeq([i \in 1..Len(ts) |-> i],
                               LAMBDA i : ts[i].id # task_id)
         IN [a EXCEPT !.notes = [k \in 1..Len(kept) |-> a.notes[kept[k]]]]

\* The history after a reminder pass that made the send calls snt
AuditPass(a, snt) ==
    IF ~a.on THEN a
    ELSE [a EXCEPT !.notes =
            [i \in DOMAIN @ |->
               [@[i] EXCEPT !.due_now =
                  @ + Cardinality({k \in 1..Len(snt) :
                                     /\ snt[k].idx = i
                                     /\ snt[k].title = "Task Due"})]]]

\* DesktopWidget.__init__: the tasks are read once, at start-up
\* and before them the settings; the window is shown by main; the auto-start
\* entry is written if the "startup" setting is true
DesktopWidget_init ==
    /\ todo = "off"
    /\ LET s == load_settings("StorageManager", settings_file.todo)
           r == IF s.exc = "none" THEN load_tasks(file, now, uuids)
                ELSE [exc |-> s.exc, tasks |-> <<>>, uuids |-> uuids]
           up == r.exc = "none" IN
       /\ todo' = IF up THEN "running" ELSE "crashed"
       /\ tasks' = r.tasks
       /\ uuids' = r.uuids
       /\ exc' = r.exc
       /\ settings' = IF s.exc = "none" THEN [settings EXCEPT !.todo = s.dict]
                      ELSE settings
       /\ shown' = [shown EXCEPT !.todo = up]
       /\ registry' = IF up /\ Truthy(Get(s.dict, "startup", DEFAULT_STARTUP))
                      THEN enable(registry, APP_KEY("todo"), os_env.winreg)
                      ELSE registry
    /\ sent' = <<>>
    /\ last' = Step("load", PyNone)
    /\ audit' = AuditLoad(audit, file, tasks')
    /\ rows' = IF todo' = "running" THEN _populate_tasks(tasks', now) ELSE <<>>
    /\ UNCHANGED <<file, now, calVars, os_env, rebuildVars, settings_file, app,
                   io>>

\* The tasks after _open_add_dialog with the dialog's outcome
AddedTasks(ts, accepted, res, clock, n) ==
    IF ~accepted \/ ~Truthy(res.title) THEN ts
    ELSE Append(ts, NewTask(res.title, PyNone, res.due, PyNone,
                            PyBool(FALSE), PyBool(FALSE),
                            isoformat(clock), n).task)

\* DesktopWidget._open_add_dialog
_open_add_dialog(accepted, text, has_due, due_dt) ==
    /\ todo = "running"
    /\ Len(tasks) < MaxTasks
    /\ uuids < MaxUuids
    /\ LET res == get_result(text, has_due, due_dt)
           added == accepted /\ Truthy(res.title) IN
       /\ tasks' = AddedTasks(tasks, accepted, res, now, uuids)
       /\ uuids' = IF added THEN uuids + 1 ELSE uuids
       /\ file' = IF added THEN save_tasks(tasks') ELSE file
       /\ last' = Step(IF added THEN "add" ELSE "add_rejected", res.title)
    /\ sent' = <<>>
    /\ exc' = "none"
    /\ audit' = AuditAdd(audit, tasks, tasks')
    /\ rows' = IF tasks' # tasks THEN _populate_tasks(tasks', now) ELSE rows
    /\ UNCHANGED <<todo, now, calVars, osVars, rebuildVars>>

\* The first index of ts whose task has the id, 0 if there is none
RECURSIVE FirstWithId(_, _, _)
FirstWithId(ts, task_id, i) ==
    IF i > Len(ts) THEN 0
    ELSE IF ts[i].id = task_id THEN i
    ELSE FirstWithId(ts, task_id, i + 1)

\* The loop of _toggle_task without the reset of reminder_sent
Toggled_no_reset(ts, task_id) ==
    LET k == FirstWithId(ts, task_id, 1) IN
    IF k = 0 THEN ts
    ELSE [ts EXCEPT ![k] = [@ EXCEPT !.completed = PyBool(~Truthy(@))]]

\* The loop of _toggle_task
Toggled(ts, task_id) ==
    LET k == FirstWithId(ts, task_id, 1) IN
    IF k = 0 THEN ts
    ELSE LET c == PyBool(~Truthy(ts[k].completed)) IN
         [ts EXCEPT ![k] =
            [@ EXCEPT !.completed = c,
                      !.reminder_sent = IF ~c.v THEN PyBool(FALSE) ELSE @]]

\* DesktopWidget._toggle_task
_toggle_task(task_id) ==
    /\ todo = "running"
    /\ tasks' = Toggled(tasks, task_id)
    /\ file' = save_tasks(tasks')
    /\ last' = Step("toggle", task_id)
    /\ sent' = <<>>
    /\ exc' = "none"
    /\ audit' = AuditToggle(audit, tasks, tasks')
    /\ rows' = _populate_tasks(tasks', now)
    /\ UNCHANGED <<todo, uuids, now, calVars, osVars, rebuildVars>>

\* A delete that removes only the first task with the id
Deleted_first_only(ts, task_id) ==
    LET k == FirstWithId(ts, task_id, 1) IN
    IF k = 0 THEN ts ELSE SubSeq(ts, 1, k - 1) \o SubSeq(ts, k + 1, Len(ts))

\* The list comprehension of _delete_task
Deleted(ts, task_id) == SelectSeq(ts, LAMBDA t : t.id # task_id)

\* DesktopWidget._delete_task
_delete_task(task_id) ==
    /\ todo = "running"
    /\ tasks' = Deleted(tasks, task_id)
    /\ file' = save_tasks(tasks')
    /\ last' = Step("delete", task_id)
    /\ sent' = <<>>
    /\ exc' = "none"
    /\ audit' = AuditDelete(audit, tasks, task_id)
    /\ rows' = _populate_tasks(tasks', now)
    /\ UNCHANGED <<todo, uuids, now, calVars, osVars, rebuildVars>>

\* _check_reminders without the save
_check_reminders_unsaved ==
    /\ todo = "running"
    /\ LET r == ReminderPass(tasks, now, os_env.winotify) IN
       /\ tasks' = r.tasks
       /\ sent' = r.sent
       /\ exc' = r.exc
       /\ todo' = IF r.exc = "none" THEN todo ELSE "crashed"
       /\ cal' = IF r.exc # "none" /\ app = "launch_all" /\ cal = "running"
                 THEN "crashed" ELSE cal
    /\ last' = Step("reminders", PyNone)
    /\ audit' = AuditPass(audit, sent')
    /\ UNCHANGED <<rows, file, uuids, now, _today, _year, _month, _due_dates,
                   _refresh_timer, grid, osVars, rebuildVars>>

\* _check_reminders that saves only if the pass has changed a task
_check_reminders_saving_changes ==
    /\ todo = "running"
    /\ LET r == ReminderPass(tasks, now, os_env.winotify) IN
       /\ tasks' = r.tasks
       /\ sent' = r.sent
       /\ exc' = r.exc
       /\ todo' = IF r.exc = "none" THEN todo ELSE "crashed"
       /\ file' = IF r.exc = "none" /\ tasks' # tasks THEN save_tasks(tasks')
                  ELSE file
       /\ cal' = IF r.exc # "none" /\ app = "launch_all" /\ cal = "running"
                 THEN "crashed" ELSE cal
    /\ last' = Step("reminders", PyNone)
    /\ audit' = AuditPass(audit, sent')
    /\ UNCHANGED <<rows, uuids, now, _today, _year, _month, _due_dates,
                   _refresh_timer, grid, osVars, rebuildVars>>

\* DesktopWidget._check_reminders, the slot of _notif_timer
\* An exception that leaves the slot ends the process: PyQt6 aborts on an
\* exception no slot has caught
_check_reminders ==
    /\ todo = "running"
    /\ LET r == ReminderPass(tasks, now, os_env.winotify) IN
       /\ tasks' = r.tasks
       /\ sent' = r.sent
       /\ exc' = r.exc
       /\ todo' = IF r.exc = "none" THEN todo ELSE "crashed"
       /\ file' = IF r.exc = "none" THEN save_tasks(tasks') ELSE file
       /\ cal' = IF r.exc # "none" /\ app = "launch_all" /\ cal = "running"
                 THEN "crashed" ELSE cal
    /\ last' = Step("reminders", PyNone)
    /\ audit' = AuditPass(audit, sent')
    /\ UNCHANGED <<rows, uuids, now, _today, _year, _month, _due_dates,
                   _refresh_timer, grid, osVars, rebuildVars>>

----------------------------------------------------------------------------
(* CalStorage and DayCell (calendar_widget.py) *)

\* What one record t of the task file adds to the result of load_due_dates;
\* exc is the exception that leaves the loop
DueDateOf(t) ==
    IF t.t # "dict" THEN [exc |-> "AttributeError", dates |-> {}]
    ELSE LET due == Get(t.v, "due", PyNone) IN
         IF ~Truthy(due) \/ Truthy(Get(t.v, "completed", PyBool(FALSE)))
         THEN [exc |-> "none", dates |-> {}]
         ELSE IF due.t # "str" THEN [exc |-> "TypeError", dates |-> {}]
         ELSE IF ~IsoValid(due.v) THEN [exc |-> "none", dates |-> {}]
         ELSE [exc |-> "none", dates |-> {DateOf(fromisoformat(due.v))}]

\* The loop of load_due_dates over the records
RECURSIVE DueDates(_, _)
DueDates(items, acc) ==
    IF items = <<>> THEN [exc |-> "none", dates |-> acc]
    ELSE LET r == DueDateOf(Head(items)) IN
         IF r.exc # "none" THEN r
         ELSE DueDates(Tail(items), acc \cup r.dates)

\* CalStorage.load_due_dates(): every exception yields the empty set
load_due_dates(f) ==
    IF f.kind # "json" THEN {}
    ELSE IF f.doc.t # "dict" THEN {}
    ELSE LET ts == Get(f.doc.v, "tasks", PyList(<<>>)) IN
         IF ~Iterable(ts) THEN {}
         ELSE IF ts.t = "dict" /\ DOMAIN ts.v # {} THEN {}
         ELSE LET r == DueDates(IterItems(ts), {}) IN
              IF r.exc # "none" THEN {} ELSE r.dates

\* DayCell whose dot ignores is_past
DayCell_dot_on_past(day, this_month, is_today, is_past, has_task) ==
    [day |-> day, this_month |-> this_month, is_today |-> is_today,
     is_past |-> is_past, has_task |-> has_task,
     style |-> IF day = 0 THEN "blank"
               ELSE IF is_today THEN "today"
               ELSE IF is_past /\ this_month THEN "past"
               ELSE IF ~this_month THEN "muted"
               ELSE "normal",
     dot |-> day # 0 /\ has_task /\ this_month]

\* DayCell.__init__ and DayCell._build: the colours chosen and the task dot
DayCell(day, this_month, is_today, is_past, has_task) ==
    [day |-> day, this_month |-> this_month, is_today |-> is_today,
     is_past |-> is_past, has_task |-> has_task,
     style |-> IF day = 0 THEN "blank"
               ELSE IF is_today THEN "today"
               ELSE IF is_past /\ this_month THEN "past"
               ELSE IF ~this_month THEN "muted"
               ELSE "normal",
     dot |-> day # 0 /\ has_task /\ this_month /\ ~is_past]

----------------------------------------------------------------------------
(* CalendarWidget (calendar_widget.py) *)

\* calendar.Calendar(firstweekday).itermonthdays(year, month): the days of
\* the month, padded with zeros to whole weeks
itermonthdays(firstweekday, year, month) ==
    LET day1 == Weekday(year, month, 1)
        ndays == DaysInMonth(year, month)
        days_before == (day1 - firstweekday) % 7
        days_after == (firstweekday - day1 - ndays) % 7
    IN [i \in 1..(days_before + ndays + days_after) |->
          IF i <= days_before \/ i > days_before + ndays THEN 0
          ELSE i - days_before]

\* calendar.Calendar(firstweekday).monthdayscalendar(year, month)
monthdayscalendar(firstweekday, year, month) ==
    LET days == itermonthdays(firstweekday, year, month) IN
    [w \in 1..(Len(days) \div 7) |-> [c \in 1..7 |-> days[(w - 1) * 7 + c]]]

\* The week starts on Monday
_month_calendar_monday_first(year, month) == monthdayscalendar(0, year, month)

\* CalendarWidget._month_calendar_sunday_first
_month_calendar_sunday_first(year, month) == monthdayscalendar(6, year, month)

\* The cell that compares the day of the month alone with today's
CellFor_day_only(year, month, day, today, due_dates) ==
    IF day = 0 THEN DayCell(0, FALSE, FALSE, FALSE, FALSE)
    ELSE LET cell_date == [year |-> year, month |-> month, day |-> day] IN
         DayCell(day, TRUE, day = today.day, DateLT(cell_date, today),
                 cell_date \in due_dates)

\* The cell whose is_past holds for today as well
CellFor_past_includes_today(year, month, day, today, due_dates) ==
    IF day = 0 THEN DayCell(0, FALSE, FALSE, FALSE, FALSE)
    ELSE LET cell_date == [year |-> year, month |-> month, day |-> day] IN
         DayCell(day, TRUE, cell_date = today,
                 DateLT(cell_date, today) \/ cell_date = today,
                 cell_date \in due_dates)

\* The body of the loop of _do_rebuild_grid: the cell of one grid position
CellFor(year, month, day, today, due_dates) ==
    IF day = 0 THEN DayCell(0, FALSE, FALSE, FALSE, FALSE)
    ELSE LET cell_date == [year |-> year, month |-> month, day |-> day] IN
         DayCell(day, TRUE, cell_date = today, DateLT(cell_date, today),
                 cell_date \in due_dates)

\* CalendarWidget._rebuild_grid / _do_rebuild_grid: the grid it leaves
Rebuilt(year, month, today, due_dates) ==
    LET weeks == _month_calendar_sunday_first(year, month) IN
    [w \in 1..Len(weeks) |->
        [c \in 1..7 |-> CellFor(year, month, weeks[w][c], today, due_dates)]]

\* CalendarWidget.__init__: today's month is shown; _refresh loads the due
\* dates and builds the grid
\* The settings are loaded first; the window is shown by main; the auto-start
\* entry is written if the "startup" setting is true
CalendarWidget_init ==
    /\ cal = "off"
    /\ cal' = "running"
    /\ LET s == load_settings("CalStorage", settings_file.cal) IN
       /\ settings' = [settings EXCEPT !.cal = s.dict]
       /\ registry' = IF Truthy(Get(s.dict, "startup", PyBool(TRUE)))
                      THEN enable(registry, APP_KEY("cal"), os_env.winreg)
                      ELSE registry
    /\ shown' = [shown EXCEPT !.cal = TRUE]
    /\ _today' = DateOf(now)
    /\ _year' = now.year
    /\ _month' = now.month
    /\ _due_dates' = load_due_dates(file)
    /\ grid' = Rebuilt(_year', _month', _today', _due_dates')
    /\ _refresh_timer' = "armed"
    /\ last' = Step("cal_init", PyNone)
    /\ UNCHANGED <<file, now, todoVars, os_env, audit, rebuildVars,
                   settings_file, app, io>>

\* _tick that does not load the due dates
_tick_keeps_due_dates ==
    /\ cal = "running"
    /\ _refresh_timer = "armed"
    /\ _refresh_timer' = "fired"
    /\ _today' = DateOf(now)
    /\ grid' = Rebuilt(_year, _month, _today', _due_dates)
    /\ last' = Step("cal_tick", PyNone)
    /\ UNCHANGED <<file, now, todoVars, envVars, cal, _year, _month, _due_dates>>

\* CalendarWidget._tick, the slot of _refresh_timer
_tick ==
    /\ cal = "running"
    /\ _refresh_timer = "armed"
    /\ _refresh_timer' = "fired"
    /\ _today' = DateOf(now)
    /\ _due_dates' = load_due_dates(file)
    /\ grid' = Rebuilt(_year, _month, _today', _due_dates')
    /\ last' = Step("cal_tick", PyNone)
    /\ UNCHANGED <<file, now, todoVars, envVars, cal, _year, _month>>

\* _go_prev that loads the due dates
_go_prev_reloading ==
    /\ cal = "running"
    /\ _month' = IF _month = 1 THEN 12 ELSE _month - 1
    /\ _year' = IF _month = 1 THEN _year - 1 ELSE _year
    /\ _due_dates' = load_due_dates(file)
    /\ grid' = Rebuilt(_year', _month', _today, _due_dates')
    /\ last' = Step("go_prev", PyNone)
    /\ UNCHANGED <<file, now, todoVars, envVars, cal, _today, _refresh_timer>>

\* CalendarWidget._go_prev
_go_prev ==
    /\ cal = "running"
    /\ _month' = IF _month = 1 THEN 12 ELSE _month - 1
    /\ _year' = IF _month = 1 THEN _year - 1 ELSE _year
    /\ grid' = Rebuilt(_year', _month', _today, _due_dates)
    /\ last' = Step("go_prev", PyNone)
    /\ UNCHANGED <<file, now, todoVars, envVars, cal, _today, _due_dates, _refresh_timer>>

\* _go_next that leaves the year as it is after December
_go_next_same_year ==
    /\ cal = "running"
    /\ _month' = IF _month = 12 THEN 1 ELSE _month + 1
    /\ _year' = _year
    /\ grid' = Rebuilt(_year', _month', _today, _due_dates)
    /\ last' = Step("go_next", PyNone)
    /\ UNCHANGED <<file, now, todoVars, envVars, cal, _today, _due_dates, _refresh_timer>>

\* CalendarWidget._go_next
_go_next ==
    /\ cal = "running"
    /\ _month' = IF _month = 12 THEN 1 ELSE _month + 1
    /\ _year' = IF _month = 12 THEN _year + 1 ELSE _year
    /\ grid' = Rebuilt(_year', _month', _today, _due_dates)
    /\ last' = Step("go_next", PyNone)
    /\ UNCHANGED <<file, now, todoVars, envVars, cal, _today, _due_dates, _refresh_timer>>

\* CalendarWidget._go_today
_go_today ==
    /\ cal = "running"
    /\ _today' = DateOf(now)
    /\ _year' = now.year
    /\ _month' = now.month
    /\ grid' = Rebuilt(_year', _month', _today', _due_dates)
    /\ last' = Step("go_today", PyNone)
    /\ UNCHANGED <<file, now, todoVars, envVars, cal, _due_dates, _refresh_timer>>

\* CalendarWidget._jump_to_month with the dialog's outcome
_jump_to_month(accepted, y, m) ==
    /\ cal = "running"
    /\ _year' = IF accepted THEN y ELSE _year
    /\ _month' = IF accepted THEN m ELSE _month
    /\ grid' = IF accepted THEN Rebuilt(y, m, _today, _due_dates) ELSE grid
    /\ last' = Step(IF accepted THEN "jump" ELSE "jump_cancelled", PyNone)
    /\ UNCHANGED <<file, now, todoVars, envVars, cal, _today, _due_dates, _refresh_timer>>

----------------------------------------------------------------------------
(* The handlers DesktopWidget and CalendarWidget both have, for the widget *)
(* w: "todo" or "cal"                                                      *)

Widgets == {"todo", "cal"}

Running(w) == IF w = "todo" THEN todo = "running" ELSE cal = "running"

\* The widget a handler ran in, as the argument of a step
Of(w) == [t |-> "widget", v |-> w]

\* SettingsPanel.get_result(): the calendar's panel has no font size
SettingsPanel_get_result(w, opacity, font_size, dark_mode, startup) ==
    IF w = "todo"
    THEN [opacity |-> PyFloat(opacity), font_size |-> PyInt(font_size),
          dark_mode |-> PyBool(dark_mode), startup |-> PyBool(startup)]
    ELSE [opacity |-> PyFloat(opacity), dark_mode |-> PyBool(dark_mode),
          startup |-> PyBool(startup)]

\* _apply_theme of the calendar rebuilds the grid; the to-do widget's
\* repopulates its rows
ThemeApplied(w) ==
    /\ grid' = IF w = "cal" THEN Rebuilt(_year, _month, _today, _due_dates)
               ELSE grid
    /\ rows' = IF w = "todo" THEN _populate_tasks(tasks, now) ELSE rows

\* SettingsPanel._build_ui: the widget, and the state the start-up check box
\* is given, StartupManager.is_enabled()
Panel(w) ==
    [t |-> "widget", v |-> w,
     startup_check |-> is_enabled(registry, APP_KEY(w), os_env.winreg)]

\* _open_settings with the dialog's outcome
_open_settings(w, accepted, result) ==
    /\ Running(w)
    /\ settings' = IF accepted
                   THEN [settings EXCEPT ![w] = Updated(@, result)]
                   ELSE settings
    /\ registry' = IF ~accepted THEN registry
                   ELSE IF result.startup.v
                   THEN enable(registry, APP_KEY(w), os_env.winreg)
                   ELSE disable(registry, APP_KEY(w), os_env.winreg)
    /\ settings_file' = IF accepted
                        THEN [settings_file EXCEPT
                                 ![w] = save_settings(settings'[w])]
                        ELSE settings_file
    /\ IF accepted THEN ThemeApplied(w) ELSE UNCHANGED <<grid, rows>>
    /\ last' = Step(IF accepted THEN "settings" ELSE "settings_cancelled",
                    Panel(w))
    /\ UNCHANGED <<file, now, todo, tasks, uuids, sent, exc, cal, _today, _year, _month, _due_dates,
                   _refresh_timer, os_env, audit, rebuildVars, shown, app, io>>

\* The geometry keys _save_state updates
GeometryOf(x, y, width, height) ==
    [x |-> PyInt(x), y |-> PyInt(y), width |-> PyInt(width),
     height |-> PyInt(height)]

\* _save_state that dumps the settings over the task file
_save_state_over_tasks(w, geo) ==
    /\ Running(w)
    /\ settings' = [settings EXCEPT ![w] = Updated(@, geo)]
    /\ file' = save_settings(settings'[w])
    /\ last' = Step("save_state", Of(w))
    /\ UNCHANGED <<now, todoVars, calVars, os_env, audit, rebuildVars, registry,
                   shown, app,
                   settings_file, io>>

\* _save_state, the slot of _save_timer, with the window's geometry
_save_state(w, geo) ==
    /\ Running(w)
    /\ settings' = [settings EXCEPT ![w] = Updated(@, geo)]
    /\ settings_file' = [settings_file EXCEPT ![w] = save_settings(settings'[w])]
    /\ last' = Step("save_state", Of(w))
    /\ UNCHANGED <<file, now, todoVars, calVars, os_env, audit, rebuildVars, registry,
                   shown, app,
                   io>>

\* closeEvent: the event is ignored and the window hidden
closeEvent(w) ==
    /\ Running(w)
    /\ shown' = [shown EXCEPT ![w] = FALSE]
    /\ last' = Step("close", Of(w))
    /\ UNCHANGED <<file, now, todoVars, calVars, os_env, audit, rebuildVars, registry,
                   settings,
                   settings_file, app, io>>

\* _tray_activated with a double click: setVisible(not isVisible())
_tray_activated(w) ==
    /\ Running(w)
    /\ shown' = [shown EXCEPT ![w] = ~@]
    /\ last' = Step("tray", Of(w))
    /\ UNCHANGED <<file, now, todoVars, calVars, os_env, audit, rebuildVars, registry,
                   settings,
                   settings_file, app, io>>

\* The widgets whose process QApplication.quit() ends when w calls it: the
\* one QApplication of launch_all runs both
QuitBy(w) == IF app = "launch_all" THEN Widgets ELSE {w}

\* _exit_app, the tray menu's Exit: _save_state(), tray.hide(),
\* QApplication.quit()
_exit_app(w, geo) ==
    /\ Running(w)
    /\ settings' = [settings EXCEPT ![w] = Updated(@, geo)]
    /\ settings_file' = [settings_file EXCEPT ![w] = save_settings(settings'[w])]
    /\ todo' = IF "todo" \in QuitBy(w) /\ todo = "running" THEN "exited" ELSE todo
    /\ cal' = IF "cal" \in QuitBy(w) /\ cal = "running" THEN "exited" ELSE cal
    /\ shown' = [v \in Widgets |-> shown[v] /\ v \notin QuitBy(w)]
    /\ last' = Step("exit", Of(w))
    /\ UNCHANGED <<file, now, tasks, uuids, sent, exc, rows, _today, _year, _month,
                   _due_dates, _refresh_timer, grid, os_env, audit, rebuildVars, registry, app, io>>

----------------------------------------------------------------------------
(* The environment: the clock, the task files found at start-up, the user *)

\* 2024-01-31 23:58:00, two minutes before the month turns
StartTime ==
    [year |-> 2024, month |-> 1, day |-> 31,
     hour |-> 23, minute |-> 58, second |-> 0]

\* The due time picked in the add dialog: six minutes from the start
DueChoices == {AddSeconds(StartTime, 360)}

\* The texts typed in the add dialog: "", " ", "B", " B "
TitleTexts == {<<>>, <<32>>, <<66>>, <<32, 66, 32>>}

\* A record of the task file with all seven keys
FileTask(id, title, due, completed, reminder_sent) ==
    PyDict([id            |-> PyStr(id),
            title         |-> PyStr(title),
            list_name     |-> DEFAULT_LIST_NAME,
            due           |-> due,
            completed     |-> PyBool(completed),
            reminder_sent |-> PyBool(reminder_sent),
            created       |-> isoformat(AddSeconds(StartTime, -3600))])

TasksDoc(items) == Json(PyDict([tasks |-> PyList(items)]))

\* Task files the to-do widget may find when it starts
GoodFiles ==
    { Missing,
      TasksDoc(<<>>),
      \* two tasks: one due in a minute, one whose due text does not parse
      TasksDoc(<<FileTask(<<97>>, <<65>>, isoformat(AddSeconds(StartTime, 60)),
                          FALSE, FALSE),
                 FileTask(<<98>>, <<66>>, PyStr(<<120>>), FALSE, FALSE)>>),
      \* a completed task that was notified, and a task with an empty due text
      TasksDoc(<<FileTask(<<97>>, <<65>>, isoformat(AddSeconds(StartTime, -60)),
                          TRUE, TRUE),
                 FileTask(<<98>>, <<66>>, PyStr(<<>>), FALSE, FALSE)>>),
      \* only the two required keys
      TasksDoc(<<PyDict([id |-> PyStr(<<97>>), title |-> PyStr(<<65>>)])>>),
      \* an empty id
      TasksDoc(<<FileTask(<<>>, <<65>>, PyNone, FALSE, FALSE)>>),
      \* no "tasks" key
      Json(PyDict([version |-> PyInt(1)])) }

\* Two records with the same id
DuplicateIdFiles ==
    { TasksDoc(<<FileTask(<<97>>, <<65>>, PyNone, FALSE, FALSE),
                 FileTask(<<97>>, <<66>>, PyNone, TRUE, FALSE)>>) }

\* Corrupt files and JSON documents of another shape
BadFiles ==
    { Malformed,
      BadUtf8,
      Json(PyList(<<>>)),                         \* top level: a list
      Json(PyDict([tasks |-> PyInt(5)])),         \* "tasks": a number
      Json(PyDict([tasks |-> PyNone])),           \* "tasks": null
      TasksDoc(<<PyInt(1)>>),                     \* "tasks": a list of numbers
      TasksDoc(<<PyDict([id |-> PyStr(<<97>>)])>>),        \* no "title"
      TasksDoc(<<PyDict([title |-> PyStr(<<65>>)])>>) }    \* no "id"

InitFiles == GoodFiles \cup DuplicateIdFiles \cup BadFiles

\* A minute passes, the period of the reminder timer and of the calendar's
\* refresh timer; a running calendar's refresh timer has fired in it
Tick ==
    /\ SecondsBetween(now, StartTime) < MaxTicks * (REMINDER_INTERVAL_MS \div 1000)
    /\ cal = "running" => _refresh_timer = "fired"
    /\ now' = AddSeconds(now, REMINDER_INTERVAL_MS \div 1000)
    /\ _refresh_timer' = "armed"
    /\ last' = Step("tick", PyNone)
    /\ sent' = <<>>
    /\ UNCHANGED <<envVars, file, todo, tasks, uuids, exc, rows, cal, _today, _year,
                   _month,
                   _due_dates, grid>>

\* The ids the row signals carry: those of the tasks shown, and a stale one
IdChoices == {tasks[i].id : i \in 1..Len(tasks)} \cup {Uuid(0)}

\* self.settings before __init__ has run
NoSettings == [unset |-> PyNone]

\* The file system when no save and no read is followed step by step
IoIdle == [lock |-> <<>>, path |-> <<>>, inode |-> <<>>, thr |-> <<>>,
           rd |-> <<>>, held |-> {}, saves |-> 0]

Init ==
    /\ file \in InitFiles
    /\ todo = "off"
    /\ tasks = <<>>
    /\ rows = <<>>
    /\ uuids = 0
    /\ now = StartTime
    /\ sent = <<>>
    /\ last = [op |-> "none", arg |-> PyNone, before |-> <<>>]
    /\ exc = "none"
    /\ cal = "off"
    /\ _today = DateOf(StartTime)
    /\ _year = StartTime.year
    /\ _month = StartTime.month
    /\ _due_dates = {}
    /\ _refresh_timer = "armed"
    /\ grid = <<>>
    /\ os_env = [winreg |-> "ok", winotify |-> "ok"]
    /\ registry = {}
    /\ settings = [todo |-> NoSettings, cal |-> NoSettings]
    /\ settings_file = [todo |-> Missing, cal |-> Missing]
    /\ shown = [todo |-> FALSE, cal |-> FALSE]
    /\ app = "separate"
    /\ io = IoIdle
    /\ audit = NoAudit
    /\ _rebuilding = FALSE
    /\ rebuild_calls = <<>>

AddDialog ==
    \E accepted \in BOOLEAN, text \in TitleTexts, has_due \in BOOLEAN,
       due_dt \in DueChoices :
        _open_add_dialog(accepted, text, has_due, due_dt)

ToggleTask == \E task_id \in IdChoices : _toggle_task(task_id)

DeleteTask == \E task_id \in IdChoices : _delete_task(task_id)

Next ==
    \/ DesktopWidget_init
    \/ AddDialog
    \/ ToggleTask
    \/ DeleteTask
    \/ _check_reminders
    \/ Tick

\* The to-do widget alone with the task file and the clock
Spec == Init /\ [][Next]_vars

----------------------------------------------------------------------------
(* The calendar widget with the task file, the clock and the to-do widget *)
(* as the other process that rewrites the task file                      *)

\* An in-memory task of the to-do widget process
MemTask(id, title, due, completed) ==
    NewTask(PyStr(title), PyNone, due, PyStr(id), PyBool(completed),
            PyBool(FALSE), isoformat(AddSeconds(StartTime, -3600)), 0).task

\* Collections the to-do widget saves while the calendar runs: tasks due on
\* January 30th, January 31st and February 1st, open or completed
WrittenCollections ==
    { <<>>,
      <<MemTask(<<97>>, <<65>>, isoformat(AddSeconds(StartTime, 60)), FALSE)>>,
      <<MemTask(<<97>>, <<65>>, isoformat(AddSeconds(StartTime, 60)), TRUE)>>,
      <<MemTask(<<97>>, <<65>>, isoformat([StartTime EXCEPT !.day = 30]), FALSE),
        MemTask(<<98>>, <<66>>, isoformat(AddSeconds(StartTime, 60)), FALSE)>>,
      <<MemTask(<<97>>, <<65>>, isoformat(AddSeconds(StartTime, 360)), FALSE),
        MemTask(<<98>>, <<66>>, PyStr(<<120>>), FALSE)>> }

\* StorageManager.save_tasks run by the to-do widget's process
TodoSaves ==
    /\ \E ts \in WrittenCollections :
          /\ file' = save_tasks(ts)
          /\ file' # file
    /\ last' = Step("file_written", PyNone)
    /\ UNCHANGED <<now, todoVars, calVars, envVars>>

\* The months the model lets the cursor reach: MaxMonthsAway around the start
MaxMonthsAway == 1

MonthsFromStart(y, m) == (y - StartTime.year) * 12 + (m - StartTime.month)

InRange(y, m) ==
    MonthsFromStart(y, m) >= -MaxMonthsAway /\ MonthsFromStart(y, m) <= MaxMonthsAway

\* The years JumpDialog offers: range(today.year - 10, today.year + 11)
JumpYears == (now.year - 10)..(now.year + 10)

GoPrev == MonthsFromStart(_year, _month) > -MaxMonthsAway /\ _go_prev

GoNext == MonthsFromStart(_year, _month) < MaxMonthsAway /\ _go_next

JumpDialog ==
    \E accepted \in BOOLEAN, y \in JumpYears, m \in 1..12 :
        InRange(y, m) /\ _jump_to_month(accepted, y, m)

NextCal ==
    \/ CalendarWidget_init
    \/ _tick
    \/ GoPrev
    \/ GoNext
    \/ _go_today
    \/ JumpDialog
    \/ TodoSaves
    \/ Tick

SpecCal == Init /\ [][NextCal]_vars

\* The grid of every month of the years JumpDialog offers, reached month by
\* month with the navigation buttons
WalkPrev == (_year > now.year - 10 \/ _month > 1) /\ _go_prev

WalkNext == (_year < now.year + 10 \/ _month < 12) /\ _go_next

NextGrid == CalendarWidget_init \/ WalkPrev \/ WalkNext

SpecGrid == Init /\ [][NextGrid]_vars

----------------------------------------------------------------------------
(* launch_all.py: both widgets in one QApplication, with their settings,   *)
(* their tray icons and the auto-start entries                             *)

\* The state before any widget is constructed, for the task files fs, the
\* operating systems envs, the registries regs, the pairs of settings files
\* sfs and the way the widgets are started
InitWith(fs, envs, regs, sfs, how) ==
    /\ file \in fs
    /\ todo = "off"
    /\ tasks = <<>>
    /\ rows = <<>>
    /\ uuids = 0
    /\ now = StartTime
    /\ sent = <<>>
    /\ last = [op |-> "none", arg |-> PyNone, before |-> <<>>]
    /\ exc = "none"
    /\ cal = "off"
    /\ _today = DateOf(StartTime)
    /\ _year = StartTime.year
    /\ _month = StartTime.month
    /\ _due_dates = {}
    /\ _refresh_timer = "armed"
    /\ grid = <<>>
    /\ os_env \in envs
    /\ registry \in regs
    /\ settings = [todo |-> NoSettings, cal |-> NoSettings]
    /\ settings_file \in sfs
    /\ shown = [todo |-> FALSE, cal |-> FALSE]
    /\ app = how
    /\ io = IoIdle
    /\ audit = NoAudit
    /\ _rebuilding = FALSE
    /\ rebuild_calls = <<>>

\* The geometry of w's window: as the settings have it, or moved and resized
Geometries(w) ==
    {GeometryOf(settings[w].x.v, settings[w].y.v, settings[w].width.v,
                settings[w].height.v),
     GeometryOf(10, 20, 300, 200)}

\* What the user leaves in the settings panel of w
PanelResults(w) ==
    {SettingsPanel_get_result(w, 92, FONT_SIZE_DEFAULT, TRUE, startup) :
        startup \in BOOLEAN}

OpenSettings(w) ==
    \E accepted \in BOOLEAN, result \in PanelResults(w) :
        _open_settings(w, accepted, result)

SaveState(w) == Running(w) /\ \E geo \in Geometries(w) : _save_state(w, geo)

ExitApp(w) == Running(w) /\ \E geo \in Geometries(w) : _exit_app(w, geo)

\* The task file launch_all finds: none, or one open task due in a minute
AppFiles ==
    {Missing,
     TasksDoc(<<FileTask(<<97>>, <<65>>, isoformat(AddSeconds(StartTime, 60)),
                         FALSE, FALSE)>>)}

InitApp ==
    InitWith(AppFiles, {[winreg |-> "ok", winotify |-> "ok"]}, {{}},
             {[todo |-> Missing, cal |-> Missing]}, "launch_all")

\* main of launch_all constructs the to-do widget, then the calendar, then
\* runs the event loop
Looping == todo = "running" /\ cal = "running"

NextApp ==
    \/ DesktopWidget_init
    \/ todo = "running" /\ CalendarWidget_init
    \/ Looping /\ ToggleTask
    \/ Looping /\ _tick
    \/ Looping /\ GoPrev
    \/ Looping /\ GoNext
    \/ Looping /\ _go_today
    \/ Looping /\ JumpDialog
    \/ Looping /\ OpenSettings("cal")
    \/ Looping /\ SaveState("cal")
    \/ \E w \in Widgets : Looping /\ closeEvent(w)
    \/ \E w \in Widgets : Looping /\ _tray_activated(w)
    \/ \E w \in Widgets : Looping /\ ExitApp(w)

SpecApp == InitApp /\ [][NextApp]_vars

----------------------------------------------------------------------------
(* The widgets, each started by its own main, on an operating system whose *)
(* registry or notifications may fail                                      *)

\* Operating systems: one of the two services may fail
OsEnvs ==
    {[winreg |-> r, winotify |-> "ok"] : r \in WinregStates}
    \cup {[winreg |-> "ok", winotify |-> n] : n \in WinotifyStates}

\* Two open tasks that are due when the widget starts
OsFiles ==
    {TasksDoc(<<FileTask(<<97>>, <<65>>, isoformat(AddSeconds(StartTime, -60)),
                         FALSE, FALSE),
                FileTask(<<98>>, <<66>>, isoformat(StartTime), FALSE, FALSE)>>)}

\* Settings files: none, or files that turn the auto-start off
OsSettingsFiles ==
    {[todo |-> a, cal |-> a] :
        a \in {Missing, Json(PyDict([startup |-> PyBool(FALSE)]))}}

\* The auto-start entries found at start: any, if there is a registry
InitOs ==
    /\ InitWith(OsFiles, OsEnvs, SUBSET {APP_KEY(w) : w \in Widgets},
                OsSettingsFiles, "separate")
    /\ os_env.winreg = "absent" => registry = {}

NextOs ==
    \/ DesktopWidget_init
    \/ CalendarWidget_init
    \/ \E w \in Widgets : OpenSettings(w)
    \/ _check_reminders

SpecOs == InitOs /\ [][NextOs]_vars

----------------------------------------------------------------------------
(* The widgets started on the settings files they may find *)

\* Settings files: absent or corrupt, JSON objects with known and unknown
\* keys, and JSON documents that are no objects
SettingsFiles ==
    { Missing,
      Malformed,
      BadUtf8,
      \* a known key and an unknown one
      Json(PyDict([dark_mode |-> PyBool(FALSE), theme |-> PyStr(<<100>>)])),
      \* a list of lists without the default list
      Json(PyDict([all_lists |-> PyList(<<PyStr(<<87>>)>>)])),
      \* "all_lists": a number
      Json(PyDict([all_lists |-> PyInt(5)])),
      \* a number; an empty list; a list of a pair and a number
      Json(PyInt(5)),
      Json(PyList(<<>>)),
      Json(PyList(<<PyList(<<PyStr(<<120>>), PyInt(1)>>), PyInt(5)>>)) }

InitSettings ==
    InitWith({Missing}, {[winreg |-> "ok", winotify |-> "ok"]}, {{}},
             [todo : SettingsFiles, cal : SettingsFiles], "separate")

NextSettings ==
    \/ DesktopWidget_init
    \/ CalendarWidget_init
    \/ \E w \in Widgets : SaveState(w)

SpecSettings == InitSettings /\ [][NextSettings]_vars

----------------------------------------------------------------------------
(* A save followed step by step: save_tasks and save_settings of both      *)
(* storage classes, called by the threads of one process, and              *)
(* load_due_dates running in the calendar's process.  A file is an inode   *)
(* that paths name and open files hold; its content is the sequence of the *)
(* chunks json.dump has written.                                           *)

\* The chunks json.dump writes a document in
NChunks == 2
\* The save calls followed
MaxSaves == 2
\* The threads that call a save
Savers == {1, 2}

PathOf(dir, stem, suffix) == [dir |-> dir, stem |-> stem, suffix |-> suffix]

DATA_FILE == PathOf("DesktopTodo", "tasks", ".json")

SETTINGS_FILE(cls) ==
    PathOf(IF cls = "StorageManager" THEN "DesktopTodo" ELSE "DesktopCalendar",
           "settings", ".json")

TODO_TASKS == PathOf("DesktopTodo", "tasks", ".json")

\* A path that keeps the target's name
with_suffix_same(p, suffix) == p

\* Path.with_suffix
with_suffix(p, suffix) == [p EXCEPT !.suffix = suffix]

Targets == {DATA_FILE} \cup {SETTINGS_FILE(cls) : cls \in StorageClasses}

Paths == Targets \cup {with_suffix(p, ".tmp") : p \in Targets}

\* The text of a document, chunk by chunk; a Hole is what a write beyond the
\* end of a file leaves before it
Text(doc) == [k \in 1..NChunks |-> [doc |-> doc, part |-> k]]
Hole == [doc |-> Missing, part |-> 0]

\* json.load on a content: a text that is not the whole text of one
\* document is no JSON document
Decode(content) ==
    IF Len(content) = NChunks /\ content = Text(content[1].doc)
    THEN content[1].doc
    ELSE Malformed

\* f.write(chunk) at position pos of a content
WriteAt(content, pos, chunk) ==
    [i \in 1..(IF Len(content) > pos THEN Len(content) ELSE pos) |->
        IF i = pos THEN chunk
        ELSE IF i <= Len(content) THEN content[i] ELSE Hole]

\* The save calls: their class, their target and the document they dump
SaveCalls ==
    {[cls |-> "StorageManager", target |-> DATA_FILE, doc |-> save_tasks(ts)] :
        ts \in {<<>>, <<MemTask(<<97>>, <<65>>,
                                isoformat(AddSeconds(StartTime, 60)), FALSE)>>}}
    \cup
    {[cls |-> cls, target |-> SETTINGS_FILE(cls),
      doc |-> save_settings(SettingsDefaults(cls))] : cls \in StorageClasses}

NoCall == [cls |-> "none", target |-> DATA_FILE, doc |-> Missing]
IdleSaver == [pc |-> "idle", call |-> NoCall, h |-> 0, k |-> 0]
IdleReader == [pc |-> "idle", h |-> 0, got |-> <<>>, result |-> {}]

\* The file system with the task file f and no settings file
IoAt(f) ==
    [lock  |-> [cls \in StorageClasses |-> 0],
     path  |-> [p \in Paths |->
                  IF p = DATA_FILE /\ f.kind # "missing" THEN 1 ELSE 0],
     inode |-> IF f.kind = "missing" THEN <<>> ELSE <<Text(f)>>,
     thr   |-> [t \in Savers |-> IdleSaver],
     rd    |-> IdleReader,
     held  |-> [p \in Targets |->
                  IF p = DATA_FILE /\ f.kind # "missing" THEN {Text(f)} ELSE {}],
     saves |-> 0]

\* What the rest of the model sees of the target p
FileAt(i, p) ==
    IF i.path[p] = 0 THEN Missing ELSE Decode(i.inode[i.path[p]])

SaveFrame == UNCHANGED <<now, todoVars, calVars, os_env, audit, rebuildVars, registry,
                   settings,
                         shown, app>>

\* The files as they follow from the file system
Synced(i) ==
    /\ file' = FileAt(i, DATA_FILE)
    /\ settings_file' = [todo |-> FileAt(i, SETTINGS_FILE("StorageManager")),
                         cal  |-> FileAt(i, SETTINGS_FILE("CalStorage"))]
    /\ io' = i
    /\ SaveFrame

\* A thread calls save_tasks or save_settings
SaveCall(t, c) ==
    /\ io.thr[t].pc = "idle"
    /\ io.saves < MaxSaves
    /\ Synced([io EXCEPT !.thr[t] = [IdleSaver EXCEPT !.pc = "acquire",
                                                      !.call = c],
                         !.saves = @ + 1])
    /\ last' = Step("save_called", PyNone)

\* A lock another thread may hold at the same time
CanAcquire_always(holder) == TRUE

\* threading.Lock: free when no thread holds it
CanAcquire(holder) == holder = 0

\* `with StorageManager._lock:` / `with CalStorage._lock:`
Acquire(t) ==
    /\ io.thr[t].pc = "acquire"
    /\ CanAcquire(io.lock[io.thr[t].call.cls])
    /\ Synced([io EXCEPT !.lock[io.thr[t].call.cls] = t,
                         !.thr[t].pc = "open"])
    /\ last' = Step("save_locked", PyNone)

\* An exception leaves the with block: the lock is released, the call ends
Raised(i, t) ==
    [i EXCEPT !.lock[i.thr[t].call.cls] = 0, !.thr[t] = IdleSaver]

\* open(tmp, "w"): an existing file is truncated, else one is created
OpenTmp(t, ok) ==
    /\ io.thr[t].pc = "open"
    /\ LET tmp == with_suffix(io.thr[t].call.target, ".tmp")
           old == io.path[tmp]
           new == Len(io.inode) + 1 IN
       IF ~ok THEN /\ Synced(Raised(io, t))
                   /\ last' = Step("save_failed", PyNone)
       ELSE IF old # 0
       THEN /\ Synced([io EXCEPT !.inode[old] = <<>>,
                                 !.thr[t].pc = "write", !.thr[t].h = old])
            /\ last' = Step("save_opened", PyNone)
       ELSE /\ Synced([io EXCEPT !.inode = Append(@, <<>>), !.path[tmp] = new,
                                 !.thr[t].pc = "write", !.thr[t].h = new])
            /\ last' = Step("save_opened", PyNone)

\* json.dump: one chunk more is written at the position of the open file
Write(t, ok) ==
    /\ io.thr[t].pc = "write"
    /\ LET s == io.thr[t]
           chunk == [doc |-> s.call.doc, part |-> s.k + 1] IN
       IF ~ok THEN /\ Synced(Raised(io, t))
                   /\ last' = Step("save_failed", PyNone)
       ELSE /\ Synced([io EXCEPT
                         !.inode[s.h] = WriteAt(@, s.k + 1, chunk),
                         !.thr[t].k = s.k + 1,
                         !.thr[t].pc = IF s.k + 1 = NChunks THEN "replace"
                                       ELSE "write"])
            /\ last' = Step("save_written", PyNone)

\* tmp.replace(target): the target names the temporary file's inode from now
\* on; then the with block ends and the lock is released
Replace(t, ok) ==
    /\ io.thr[t].pc = "replace"
    /\ LET target == io.thr[t].call.target
           tmp == with_suffix(target, ".tmp") IN
       IF ~ok \/ io.path[tmp] = 0
       THEN /\ Synced(Raised(io, t))
            /\ last' = Step("save_failed", PyNone)
       ELSE LET renamed == IF tmp = target THEN io.path
                           ELSE [io.path EXCEPT ![target] = io.path[tmp],
                                                ![tmp] = 0] IN
            /\ Synced([Raised(io, t) EXCEPT
                         !.path = renamed,
                         !.held[target] = @ \cup {io.inode[renamed[target]]}])
            /\ last' = Step("save_replaced", PyNone)

\* load_due_dates: `if not TODO_TASKS.exists(): return set()`
ReaderExists ==
    /\ io.rd.pc = "idle"
    /\ Synced([io EXCEPT !.rd.pc = IF io.path[TODO_TASKS] = 0 THEN "done"
                                   ELSE "open"])
    /\ last' = Step("read_exists", PyNone)

\* load_due_dates: open(TODO_TASKS, "r"); a FileNotFoundError is swallowed
ReaderOpen ==
    /\ io.rd.pc = "open"
    /\ Synced([io EXCEPT !.rd.h = io.path[TODO_TASKS],
                         !.rd.pc = IF io.path[TODO_TASKS] = 0 THEN "done"
                                   ELSE "read"])
    /\ last' = Step("read_opened", PyNone)

\* load_due_dates: json.load(f) reads the open file chunk by chunk to its
\* end, then the due dates are collected
ReaderRead ==
    /\ io.rd.pc = "read"
    /\ LET content == io.inode[io.rd.h]
           n == Len(io.rd.got) IN
       IF n < Len(content)
       THEN Synced([io EXCEPT !.rd.got = Append(@, content[n + 1])])
       ELSE Synced([io EXCEPT !.rd.pc = "done",
                              !.rd.result = load_due_dates(Decode(io.rd.got))])
    /\ last' = Step("read", PyNone)

\* The next refresh of the calendar calls load_due_dates again
ReaderAgain ==
    /\ io.rd.pc = "done"
    /\ Synced([io EXCEPT !.rd = IdleReader])
    /\ last' = Step("read_again", PyNone)

InitSave ==
    /\ file \in {Missing, save_tasks(<<>>)}
    /\ todo = "off"
    /\ tasks = <<>>
    /\ rows = <<>>
    /\ uuids = 0
    /\ now = StartTime
    /\ sent = <<>>
    /\ last = [op |-> "none", arg |-> PyNone, before |-> <<>>]
    /\ exc = "none"
    /\ cal = "off"
    /\ _today = DateOf(StartTime)
    /\ _year = StartTime.year
    /\ _month = StartTime.month
    /\ _due_dates = {}
    /\ _refresh_timer = "armed"
    /\ grid = <<>>
    /\ os_env = [winreg |-> "ok", winotify |-> "ok"]
    /\ registry = {}
    /\ settings = [todo |-> NoSettings, cal |-> NoSettings]
    /\ settings_file = [todo |-> Missing, cal |-> Missing]
    /\ shown = [todo |-> FALSE, cal |-> FALSE]
    /\ app = "separate"
    /\ io = IoAt(file)
    /\ audit = NoAudit
    /\ _rebuilding = FALSE
    /\ rebuild_calls = <<>>

NextSave ==
    \/ \E t \in Savers, c \in SaveCalls : SaveCall(t, c)
    \/ \E t \in Savers : Acquire(t)
    \/ \E t \in Savers, ok \in BOOLEAN : OpenTmp(t, ok)
    \/ \E t \in Savers, ok \in BOOLEAN : Write(t, ok)
    \/ \E t \in Savers, ok \in BOOLEAN : Replace(t, ok)
    \/ ReaderExists
    \/ ReaderOpen
    \/ ReaderRead
    \/ ReaderAgain

SpecSave == InitSave /\ [][NextSave]_vars

----------------------------------------------------------------------------
(* The to-do widget with its history kept: the file it started from and  *)
(* the notifications and reopenings of each task                        *)

MaxReopens == 2

\* Task files that load_tasks answers with the empty collection although
\* they are not empty: text that is no JSON, and records without "title"
CorruptFiles ==
    { Malformed,
      TasksDoc(<<FileTask(<<97>>, <<65>>, isoformat(AddSeconds(StartTime, 60)),
                          FALSE, FALSE),
                 PyDict([id |-> PyStr(<<98>>)])>>) }

\* The task files at the start: the corrupt ones, and one open task that was
\* due a minute ago
AuditFiles ==
    CorruptFiles \cup
    { TasksDoc(<<FileTask(<<97>>, <<65>>, isoformat(AddSeconds(StartTime, -60)),
                          FALSE, FALSE)>>) }

InitAudit ==
    /\ file \in AuditFiles
    /\ todo = "off"
    /\ tasks = <<>>
    /\ rows = <<>>
    /\ uuids = 0
    /\ now = StartTime
    /\ sent = <<>>
    /\ last = [op |-> "none", arg |-> PyNone, before |-> <<>>]
    /\ exc = "none"
    /\ cal = "off"
    /\ _today = DateOf(StartTime)
    /\ _year = StartTime.year
    /\ _month = StartTime.month
    /\ _due_dates = {}
    /\ _refresh_timer = "armed"
    /\ grid = <<>>
    /\ os_env = [winreg |-> "ok", winotify |-> "ok"]
    /\ registry = {}
    /\ settings = [todo |-> NoSettings, cal |-> NoSettings]
    /\ settings_file = [todo |-> Missing, cal |-> Missing]
    /\ shown = [todo |-> FALSE, cal |-> FALSE]
    /\ app = "separate"
    /\ io = IoIdle
    /\ audit = [NoAudit EXCEPT !.on = TRUE]
    /\ _rebuilding = FALSE
    /\ rebuild_calls = <<>>

\* A click on the check box of a row, while no task has been reopened
\* MaxReopens times
ToggleCounted ==
    /\ \A i \in 1..Len(audit.notes) : audit.notes[i].reopened < MaxReopens
    /\ ToggleTask

\* The handlers of the to-do widget with the clock left at StartTime: the
\* passes of the reminder timer are taken, the minutes between them are not
\* counted
NextAudit ==
    \/ DesktopWidget_init
    \/ AddDialog
    \/ ToggleCounted
    \/ DeleteTask
    \/ _check_reminders

SpecAudit == InitAudit /\ [][NextAudit]_vars

----------------------------------------------------------------------------
(* The task list of the to-do widget: a collection of open and completed  *)
(* tasks, due and not, in an order that is not the one of the list shown  *)

\* A task without due time, one due in two minutes, one whose due text is
\* a space, one due a minute ago, and a completed one
RowsFiles ==
    { TasksDoc(<<FileTask(<<97>>, <<65>>, PyNone, FALSE, FALSE),
                 FileTask(<<98>>, <<66>>, isoformat(AddSeconds(StartTime, 120)),
                          FALSE, FALSE),
                 FileTask(<<99>>, <<67>>, PyStr(<<32>>), FALSE, FALSE),
                 FileTask(<<100>>, <<68>>, isoformat(AddSeconds(StartTime, -60)),
                          FALSE, FALSE),
                 FileTask(<<101>>, <<69>>, isoformat(AddSeconds(StartTime, 60)),
                          TRUE, FALSE)>>) }

InitRows == InitWith(RowsFiles, {[winreg |-> "ok", winotify |-> "ok"]}, {{}},
                     {[todo |-> Missing, cal |-> Missing]}, "separate")

NextRows ==
    \/ DesktopWidget_init
    \/ ToggleTask
    \/ DeleteTask
    \/ _check_reminders
    \/ Tick

SpecRows == InitRows /\ [][NextRows]_vars

----------------------------------------------------------------------------
(* _rebuild_grid of the calendar step by step: the test of the guard, the *)
(* removal of the old cells, the new cells, the finally clause; and slots *)
(* that Qt runs while _do_rebuild_grid is at work                         *)

MaxDepth == 2

\* A call of _rebuild_grid at the position pc: "test" (before the test of
\* the guard), "clear" and "fill" (in _do_rebuild_grid, before the old
\* cells are removed and before the new ones are added), "finally"
RebuildCall(pc, raised) == [pc |-> pc, raised |-> raised]

\* The innermost call
TopCall == rebuild_calls[Len(rebuild_calls)]

\* The stack with the innermost call at another position
WithTop(call) == [rebuild_calls EXCEPT ![Len(rebuild_calls)] = call]

\* The stack after the innermost call has returned
Returned == SubSeq(rebuild_calls, 1, Len(rebuild_calls) - 1)

\* The GUI thread takes a slot: from the event loop, or from inside
\* _do_rebuild_grid when a call into Qt there delivers an event
SlotMayRun ==
    /\ cal = "running"
    /\ Len(rebuild_calls) < MaxDepth
    /\ rebuild_calls # <<>> => TopCall.pc \in {"clear", "fill"}

RebuildFrame ==
    UNCHANGED <<file, now, todoVars, osVars, audit, _today, _due_dates,
                _refresh_timer>>

\* _go_prev and _go_next up to their call of _rebuild_grid
NavSlot(forward) ==
    /\ SlotMayRun
    /\ InRange(_year, _month)
    /\ IF forward THEN MonthsFromStart(_year, _month) < MaxMonthsAway
                  ELSE MonthsFromStart(_year, _month) > -MaxMonthsAway
    /\ _month' = IF forward THEN (IF _month = 12 THEN 1 ELSE _month + 1)
                 ELSE (IF _month = 1 THEN 12 ELSE _month - 1)
    /\ _year' = IF forward THEN (IF _month = 12 THEN _year + 1 ELSE _year)
                ELSE (IF _month = 1 THEN _year - 1 ELSE _year)
    /\ rebuild_calls' = Append(rebuild_calls, RebuildCall("test", FALSE))
    /\ last' = Step(IF forward THEN "go_next_called" ELSE "go_prev_called",
                    PyNone)
    /\ UNCHANGED <<cal, grid, _rebuilding>>
    /\ RebuildFrame

\* CalendarWidget._on_resize_done, the slot of _resize_timer
_on_resize_done ==
    /\ SlotMayRun
    /\ rebuild_calls' = IF ~_rebuilding
                        THEN Append(rebuild_calls, RebuildCall("test", FALSE))
                        ELSE rebuild_calls
    /\ last' = Step("resize_done", PyBool(_rebuilding))
    /\ UNCHANGED <<cal, grid, _rebuilding, _year, _month>>
    /\ RebuildFrame

\* _rebuild_grid without the test of the guard
_rebuild_grid_unguarded ==
    /\ rebuild_calls # <<>>
    /\ TopCall.pc = "test"
    /\ _rebuilding' = TRUE
    /\ rebuild_calls' = WithTop(RebuildCall("clear", FALSE))
    /\ last' = Step("rebuild_entered", PyNone)
    /\ UNCHANGED <<cal, grid, _year, _month>>
    /\ RebuildFrame

\* _rebuild_grid: `if self._rebuilding: return`, `self._rebuilding = True`
_rebuild_grid ==
    /\ rebuild_calls # <<>>
    /\ TopCall.pc = "test"
    /\ IF _rebuilding
       THEN /\ rebuild_calls' = Returned
            /\ last' = Step("rebuild_dropped", PyNone)
            /\ UNCHANGED _rebuilding
       ELSE /\ _rebuilding' = TRUE
            /\ rebuild_calls' = WithTop(RebuildCall("clear", FALSE))
            /\ last' = Step("rebuild_entered", PyNone)
    /\ UNCHANGED <<cal, grid, _year, _month>>
    /\ RebuildFrame

\* _do_rebuild_grid: the loop that removes the old cells, or an exception
\* in it
_do_rebuild_grid_clear(ok) ==
    /\ rebuild_calls # <<>>
    /\ TopCall.pc = "clear"
    /\ grid' = IF ok THEN <<>> ELSE grid
    /\ rebuild_calls' = WithTop(IF ok THEN RebuildCall("fill", FALSE)
                                ELSE RebuildCall("finally", TRUE))
    /\ last' = Step(IF ok THEN "rebuild_cleared" ELSE "rebuild_raised", PyNone)
    /\ UNCHANGED <<cal, _rebuilding, _year, _month>>
    /\ RebuildFrame

\* _do_rebuild_grid: the loops that add the new cells, or an exception in
\* them
_do_rebuild_grid_fill(ok) ==
    /\ rebuild_calls # <<>>
    /\ TopCall.pc = "fill"
    /\ grid' = IF ok THEN Rebuilt(_year, _month, _today, _due_dates) ELSE grid
    /\ rebuild_calls' = WithTop(RebuildCall("finally", ~ok))
    /\ last' = Step(IF ok THEN "rebuild_filled" ELSE "rebuild_raised", PyNone)
    /\ UNCHANGED <<cal, _rebuilding, _year, _month>>
    /\ RebuildFrame

\* _rebuild_grid: `finally: self._rebuilding = False`, then the return; an
\* exception goes on to the slot that called, which it leaves
_rebuild_grid_finally ==
    /\ rebuild_calls # <<>>
    /\ TopCall.pc = "finally"
    /\ _rebuilding' = FALSE
    /\ rebuild_calls' = IF TopCall.raised THEN <<>> ELSE Returned
    /\ cal' = IF TopCall.raised THEN "crashed" ELSE cal
    /\ last' = Step("rebuild_done", PyBool(TopCall.raised))
    /\ UNCHANGED <<grid, _year, _month>>
    /\ RebuildFrame

InitRebuild == InitWith(AppFiles, {[winreg |-> "ok", winotify |-> "ok"]}, {{}},
                        {[todo |-> Missing, cal |-> Missing]}, "separate")

NextRebuild ==
    \/ CalendarWidget_init
    \/ \E forward \in BOOLEAN : NavSlot(forward)
    \/ _on_resize_done
    \/ _rebuild_grid
    \/ \E ok \in BOOLEAN : _do_rebuild_grid_clear(ok)
    \/ \E ok \in BOOLEAN : _do_rebuild_grid_fill(ok)
    \/ _rebuild_grid_finally

SpecRebuild == InitRebuild /\ [][NextRebuild]_vars

----------------------------------------------------------------------------
(* Properties of the to-do widget, checked under Spec *)

\* The NotificationManager.send calls of the last pass made for the i-th task
SentFor(i) == {k \in 1..Len(sent) : sent[k].idx = i}

\* The task is open and not yet notified
Pending(t) == ~Truthy(t.completed) /\ ~Truthy(t.reminder_sent)

\* The task's due text is a timestamp
HasDueTime(t) == Truthy(t.due) /\ IsoValid(t.due.v)

\* The seconds from the clock to the task's due time
SecondsToDue(t, clock) == SecondsBetween(fromisoformat(t.due.v), clock)

\* C1: saving the in-memory collection and loading the file again yields an
\* equal collection: as many tasks, in the same order, each with the same
\* id, title, list_name, due, completed, reminder_sent and created.
C1_SaveLoadRoundTrip ==
    todo = "running" =>
        LET r == load_tasks(save_tasks(tasks), now, uuids) IN
        /\ r.exc = "none"
        /\ Len(r.tasks) = Len(tasks)
        /\ \A i \in 1..Len(tasks) :
              /\ r.tasks[i].id = tasks[i].id
              /\ r.tasks[i].title = tasks[i].title
              /\ r.tasks[i].list_name = tasks[i].list_name
              /\ r.tasks[i].due = tasks[i].due
              /\ r.tasks[i].completed = tasks[i].completed
              /\ r.tasks[i].reminder_sent = tasks[i].reminder_sent
              /\ r.tasks[i].created = tasks[i].created

\* Two tasks, one created before the current minute, one with a due time and
\* one without, one completed, were saved and load back equal
C1_Witness ==
    /\ todo = "running"
    /\ Len(tasks) = 2
    /\ last.op \in {"add", "toggle", "reminders"}
    /\ file = save_tasks(tasks)
    /\ load_tasks(file, now, uuids).tasks = tasks
    /\ \E i \in 1..2 : tasks[i].created # isoformat(now)
    /\ \E i, j \in 1..2 : tasks[i].due = PyNone /\ HasDueTime(tasks[j])
    /\ \E i \in 1..2 : Truthy(tasks[i].completed)

\* C2: load_tasks never raises; for a missing file, a corrupt file, a JSON
\* document of another shape or records without the required keys it
\* returns the empty collection.
C2_LoadNeverRaises ==
    last.op = "load" =>
        /\ exc = "none"
        /\ todo = "running"
        /\ (file \in BadFiles \cup {Missing}) => tasks = <<>>

\* C3: an open, not yet notified task whose due time is reached gets exactly
\* one "Task Due" notification in a reminder pass, which sets reminder_sent;
\* a task with reminder_sent set gets none in any pass, and no step but a
\* toggle, a delete or a restart clears the flag.
C3_DueNowOnce ==
    /\ last.op = "reminders" =>
          \A i \in 1..Len(last.before) :
              LET b == last.before[i] IN
              /\ (Pending(b) /\ HasDueTime(b) /\ SecondsToDue(b, now) <= 0) =>
                    /\ Cardinality(SentFor(i)) = 1
                    /\ \A k \in SentFor(i) : sent[k].title = "Task Due"
                    /\ tasks[i].reminder_sent = PyBool(TRUE)
              /\ Truthy(b.reminder_sent) =>
                    /\ SentFor(i) = {}
                    /\ tasks[i].reminder_sent = b.reminder_sent
    /\ last.op \in {"reminders", "add", "add_rejected", "tick"} =>
          \A i \in 1..Len(last.before) :
              Truthy(last.before[i].reminder_sent) =>
                  /\ i <= Len(tasks)
                  /\ tasks[i].reminder_sent = last.before[i].reminder_sent

\* A pass has just notified a task whose due time was reached
C3_Witness ==
    /\ last.op = "reminders"
    /\ \E i \in 1..Len(last.before) :
          /\ Pending(last.before[i])
          /\ HasDueTime(last.before[i])
          /\ SecondsToDue(last.before[i], now) <= 0
          /\ \E k \in SentFor(i) : sent[k].title = "Task Due"
          /\ Truthy(tasks[i].reminder_sent)

\* C4: an open, not yet notified task whose due time lies ahead by at most
\* REMINDER_EARLY_WARNING_SECONDS gets exactly one "Task Due Soon"
\* notification in every reminder pass and keeps reminder_sent unset; one
\* whose due time lies further ahead gets none.
C4_DueSoonEveryPass ==
    last.op = "reminders" =>
        \A i \in 1..Len(last.before) :
            LET b == last.before[i] IN
            (Pending(b) /\ HasDueTime(b) /\ SecondsToDue(b, now) > 0) =>
                /\ tasks[i] = b
                /\ IF SecondsToDue(b, now) <= REMINDER_EARLY_WARNING_SECONDS
                   THEN /\ Cardinality(SentFor(i)) = 1
                        /\ \A k \in SentFor(i) : sent[k].title = "Task Due Soon"
                   ELSE SentFor(i) = {}

\* A pass has just warned of a task due in exactly
\* REMINDER_EARLY_WARNING_SECONDS, and the task is still not marked
C4_Witness ==
    /\ last.op = "reminders"
    /\ \E i \in 1..Len(last.before) :
          /\ Pending(last.before[i])
          /\ HasDueTime(last.before[i])
          /\ SecondsToDue(last.before[i], now) = REMINDER_EARLY_WARNING_SECONDS
          /\ \E k \in SentFor(i) : sent[k].title = "Task Due Soon"
          /\ ~Truthy(tasks[i].reminder_sent)

\* C5: a toggle that reopens a completed task leaves its reminder_sent false;
\* a toggle that completes an open task leaves its reminder_sent as it was.
C5_ReopenResetsReminder ==
    last.op = "toggle" =>
        /\ Len(tasks) = Len(last.before)
        /\ \A i \in 1..Len(last.before) :
              LET b == last.before[i] IN
              Truthy(tasks[i].completed) # Truthy(b.completed) =>
                  IF Truthy(b.completed)
                  THEN tasks[i].reminder_sent = PyBool(FALSE)
                  ELSE tasks[i].reminder_sent = b.reminder_sent

\* A completed task that had been notified was just reopened
C5_Witness ==
    /\ last.op = "toggle"
    /\ \E i \in 1..Len(last.before) :
          /\ last.before[i].id = last.arg
          /\ Truthy(last.before[i].completed)
          /\ Truthy(last.before[i].reminder_sent)
          /\ ~Truthy(tasks[i].completed)
          /\ tasks[i].reminder_sent = PyBool(FALSE)

\* The ids of the collection, in order
IdsOf(ts) == [i \in 1..Len(ts) |-> ts[i].id]

\* C9: the ids of the in-memory collection are pairwise different, and no
\* handler changes the id of a task it keeps: add, toggle and the reminder
\* pass leave the ids of the existing tasks in place, delete leaves the ids
\* of the other tasks in order.
C9_IdsUniqueAndFixed ==
    /\ \A i, j \in 1..Len(tasks) : i # j => tasks[i].id # tasks[j].id
    /\ last.op \in {"add", "add_rejected", "toggle", "reminders", "tick"} =>
          /\ Len(tasks) >= Len(last.before)
          /\ \A i \in 1..Len(last.before) : tasks[i].id = last.before[i].id
    /\ last.op = "delete" =>
          IdsOf(tasks) = SelectSeq(IdsOf(last.before), LAMBDA x : x # last.arg)

\* The record of the task file that a task is written as
SameAsRecord(t, d) ==
    /\ d.t = "dict"
    /\ DOMAIN d.v = {"id", "title", "list_name", "due", "completed",
                     "reminder_sent", "created"}
    /\ d.v["id"] = t.id
    /\ d.v["title"] = t.title
    /\ d.v["list_name"] = t.list_name
    /\ d.v["due"] = t.due
    /\ d.v["completed"] = t.completed
    /\ d.v["reminder_sent"] = t.reminder_sent
    /\ d.v["created"] = t.created

\* The task file holds {"tasks": [...]} with one record per task of ts, in
\* order, all attributes equal
FileHolds(f, ts) ==
    /\ f.kind = "json"
    /\ f.doc.t = "dict"
    /\ DOMAIN f.doc.v = {"tasks"}
    /\ f.doc.v["tasks"].t = "list"
    /\ Len(f.doc.v["tasks"].v) = Len(ts)
    /\ \A i \in 1..Len(ts) : SameAsRecord(ts[i], f.doc.v["tasks"].v[i])

\* C10: when an add, a toggle, a delete or a reminder pass has completed,
\* the task file holds the in-memory collection.
C10_SavedAfterMutation ==
    last.op \in {"add", "toggle", "delete", "reminders"} => FileHolds(file, tasks)

\* A reminder pass has marked a task, and the file holds the marked task
C10_Witness ==
    /\ last.op = "reminders"
    /\ \E i \in 1..Len(tasks) :
          /\ ~Truthy(last.before[i].reminder_sent)
          /\ Truthy(tasks[i].reminder_sent)
          /\ Truthy(file.doc.v["tasks"].v[i].v["reminder_sent"])

----------------------------------------------------------------------------
(* Properties of the calendar widget, checked under SpecCal and SpecGrid *)

\* The grid positions <<week, column>>
Cells == {<<w, c>> : w \in 1..Len(grid), c \in 1..7}

\* The date a concrete cell shows
CellDate(p) == [year |-> _year, month |-> _month, day |-> grid[p[1]][p[2]].day]

\* The records of the task file that are tasks
FileRecords(f) ==
    IF /\ f.kind = "json"
       /\ f.doc.t = "dict"
       /\ "tasks" \in DOMAIN f.doc.v
       /\ f.doc.v["tasks"].t = "list"
    THEN {f.doc.v["tasks"].v[i] : i \in 1..Len(f.doc.v["tasks"].v)}
    ELSE {}

\* At least one task of the file is not completed and due on date d
OpenTaskDueOn(f, d) ==
    \E r \in FileRecords(f) :
        /\ r.t = "dict"
        /\ "due" \in DOMAIN r.v
        /\ r.v["due"].t = "str"
        /\ IsoValid(r.v["due"].v)
        /\ DateOf(fromisoformat(r.v["due"].v)) = d
        /\ ("completed" \in DOMAIN r.v => ~Truthy(r.v["completed"]))

\* C6, as claimed: in the grid rebuilt by a refresh, a day cell shows the dot
\* if and only if at least one task is not completed and due on the cell's
\* date, for past days, today and future days alike.
C6_DotIffOpenTaskDue ==
    last.op \in {"cal_init", "cal_tick"} =>
        \A p \in Cells :
            grid[p[1]][p[2]].day # 0 =>
                (grid[p[1]][p[2]].dot <=> OpenTaskDueOn(file, CellDate(p)))

\* C6, amended: a day cell shows the dot if and only if its date is not
\* before the cached today date and is in the due-date set, and after a
\* refresh the due-date set holds exactly the dates on which a task of the
\* task file is due and not completed.
C6_DotIffOpenTaskDueNotPast ==
    cal = "running" =>
        /\ \A p \in Cells :
              grid[p[1]][p[2]].day # 0 =>
                  (grid[p[1]][p[2]].dot <=>
                      /\ CellDate(p) \in _due_dates
                      /\ ~DateLT(CellDate(p), _today))
        /\ last.op \in {"cal_init", "cal_tick"} =>
              \A y \in {_today.year - 1, _today.year, _today.year + 1},
                 m \in 1..12, d \in 1..31 :
                  LET x == [year |-> y, month |-> m, day |-> d] IN
                  x \in _due_dates <=> OpenTaskDueOn(file, x)

\* After a refresh, today's cell shows a dot and the cell of the day before,
\* on which a task is due as well, shows none
C6_Witness ==
    /\ last.op = "cal_tick"
    /\ \E p, q \in Cells :
          /\ grid[p[1]][p[2]].is_today
          /\ grid[p[1]][p[2]].dot
          /\ OpenTaskDueOn(file, CellDate(p))
          /\ grid[q[1]][q[2]].day # 0
          /\ grid[q[1]][q[2]].is_past
          /\ OpenTaskDueOn(file, CellDate(q))
          /\ ~grid[q[1]][q[2]].dot

\* Zeller's congruence: the day of the week of a date, Sunday is 0
SundayIndex(y, m, d) ==
    LET mm == IF m < 3 THEN m + 12 ELSE m
        yy == IF m < 3 THEN y - 1 ELSE y
        k == yy % 100
        j == yy \div 100
        h == (d + ((13 * (mm + 1)) \div 5) + k + (k \div 4) + (j \div 4) + 5 * j) % 7
    IN (h + 6) % 7

\* The position of a cell in row-major order
RowMajor(p) == (p[1] - 1) * 7 + p[2]

\* C7: the grid of the displayed month is made of weeks of exactly 7 cells
\* with Sunday in column 0; every day of the month appears exactly once, in
\* increasing row-major order, in the column of its weekday; every other
\* cell is the placeholder 0.
C7_GridCompleteWeeksSundayFirst ==
    cal = "running" =>
        /\ \A w \in 1..Len(grid) : DOMAIN grid[w] = 1..7
        /\ \A d \in 1..DaysInMonth(_year, _month) :
              Cardinality({p \in Cells : grid[p[1]][p[2]].day = d}) = 1
        /\ \A p \in Cells :
              LET d == grid[p[1]][p[2]].day IN
              /\ d \in 0..DaysInMonth(_year, _month)
              /\ d # 0 => p[2] - 1 = SundayIndex(_year, _month, d)
        /\ \A p, q \in Cells :
              (/\ grid[p[1]][p[2]].day # 0
               /\ grid[q[1]][q[2]].day # 0
               /\ RowMajor(p) < RowMajor(q)) =>
                  grid[p[1]][p[2]].day < grid[q[1]][q[2]].day

\* A leap February that starts in mid-week and takes five weeks, with
\* placeholders before the 1st and after the 29th
C7_Witness ==
    /\ cal = "running"
    /\ _month = 2
    /\ DaysInMonth(_year, _month) = 29
    /\ Len(grid) = 5
    /\ grid[1][1].day = 0
    /\ grid[5][7].day = 0
    /\ \E p \in Cells : grid[p[1]][p[2]].day = 29

\* The current date lies in the displayed month
TodayDisplayed(d) == d.year = _year /\ d.month = _month

\* The cells marked "is today"
MarkedToday == {p \in Cells : grid[p[1]][p[2]].is_today}

\* C8, as claimed: after every rebuild, when the current date lies in the
\* displayed month exactly one cell is marked "is today", the cell of the
\* current date; when it lies outside, no cell is marked.
C8_TodayCellIsCurrentDate ==
    last.op \in {"cal_init", "cal_tick", "go_prev", "go_next", "go_today", "jump"} =>
        IF TodayDisplayed(DateOf(now))
        THEN /\ Cardinality(MarkedToday) = 1
             /\ \A p \in MarkedToday : CellDate(p) = DateOf(now)
        ELSE MarkedToday = {}

\* C8, amended: when the cached today date lies in the displayed month
\* exactly one cell is marked "is today", the cell of the cached date; when
\* it lies outside, no cell is marked; the cached date is the current date
\* after a refresh tick, after "today" and after start-up.
C8_TodayCellIsCachedDate ==
    cal = "running" =>
        /\ IF TodayDisplayed(_today)
           THEN /\ Cardinality(MarkedToday) = 1
                /\ \A p \in MarkedToday : CellDate(p) = _today
           ELSE MarkedToday = {}
        /\ last.op \in {"cal_init", "cal_tick", "go_today"} => _today = DateOf(now)

\* The date has rolled over, a refresh tick has taken it up, and the month
\* shown after a navigation marks the new date
C8_Witness ==
    /\ last.op \in {"go_next", "jump"}
    /\ _today = DateOf(now)
    /\ _today # DateOf(StartTime)
    /\ TodayDisplayed(_today)
    /\ \E p \in MarkedToday : CellDate(p) = _today


----------------------------------------------------------------------------
(* Properties of a save followed step by step, checked under SpecSave *)

\* The threads inside the write-temp-then-rename sequence of class cls
Writing(cls) ==
    {t \in Savers : /\ io.thr[t].pc \in {"open", "write", "replace"}
                    /\ io.thr[t].call.cls = cls}

\* The whole texts a save call with target p can leave
WholeTexts(p) == {Text(c.doc) : c \in {d \in SaveCalls : d.target = p}}

\* C11: a concurrent reader of the task file (load_due_dates) that has read
\* the file to its end has read the whole content the file had before or
\* after a save, never part of one, and returns the due dates of that
\* content; a save that fails before the rename leaves every target file
\* as it was
C11_ReaderSeesWholeFile ==
    /\ [](io.rd.pc = "done" /\ io.rd.h # 0 =>
            /\ io.rd.got \in io.held[TODO_TASKS]
            /\ io.rd.got \in WholeTexts(TODO_TASKS)
            /\ io.rd.result = load_due_dates(io.rd.got[1].doc))
    /\ [][last'.op = "save_failed" =>
            /\ file' = file
            /\ settings_file' = settings_file
            /\ \A p \in Targets :
                  /\ io'.path[p] = io.path[p]
                  /\ io.path[p] # 0 =>
                        io'.inode[io.path[p]] = io.inode[io.path[p]]]_vars

\* C11 witness: the reader has read to its end a file that was replaced
\* after it had opened it, while another save is half written
C11_Witness ==
    /\ io.rd.pc = "done"
    /\ io.rd.h # 0
    /\ io.rd.h # io.path[TODO_TASKS]
    /\ \E t \in Savers : /\ io.thr[t].pc = "write"
                         /\ io.thr[t].k = 1
                         /\ io.thr[t].call.target = TODO_TASKS

\* C12: the write-temp-then-rename sequences of the save calls of one
\* storage class exclude each other under the class's lock, and every target
\* file holds the whole text of one save call, never a mixture
C12_SavesExcludeEachOther ==
    /\ \A cls \in StorageClasses : Cardinality(Writing(cls)) <= 1
    /\ \A p \in Targets :
          io.path[p] # 0 => io.inode[io.path[p]] \in WholeTexts(p)

\* C12 witness: a thread is half way through its write while another one,
\* which saves another document to the same target, waits for the lock
C12_Witness ==
    \E t, u \in Savers :
        /\ io.thr[t].pc = "write"
        /\ io.thr[t].k = 1
        /\ io.thr[u].pc = "acquire"
        /\ io.thr[u].call.target = io.thr[t].call.target
        /\ io.thr[u].call.doc # io.thr[t].call.doc

----------------------------------------------------------------------------
(* Properties of the two widgets in one application, checked under SpecApp *)

\* The step just taken was a handler of widget w
HandlerOf(w) ==
    \/ w = "cal" /\ last.op \in {"cal_init", "cal_tick", "go_prev", "go_next",
                                  "go_today", "jump", "jump_cancelled"}
    \/ w = "todo" /\ last.op \in {"load", "add", "add_rejected", "toggle",
                                   "delete", "reminders"}
    \/ /\ last.op \in {"settings", "settings_cancelled", "save_state",
                        "close", "tray", "exit"}
       /\ last.arg.t = "widget"
       /\ last.arg.v = w

\* C13: no handler of the calendar (start-up, tick, navigation, settings,
\* save-state, close, tray, exit) changes the content of the task file
C13_CalendarNeverWritesTaskFile ==
    [][HandlerOf("cal")' => file' = file]_vars

\* C13 witness: the calendar has saved its state to its own settings file
\* while the task file holds a task
C13_Witness ==
    /\ HandlerOf("cal")
    /\ last.op = "save_state"
    /\ settings_file.cal = save_settings(settings.cal)
    /\ file.kind = "json"
    /\ Len(file.doc.v.tasks.v) > 0

\* C16: in launch_all, closing a widget hides it and ends neither widget,
\* and Exit from one widget's tray menu ends that widget alone: the other
\* keeps running
C16_ExitClosesOnlyThatWidget ==
    [][/\ last'.op = "close" =>
            /\ ~shown'[last'.arg.v]
            /\ todo' = "running" /\ cal' = "running"
       /\ last'.op = "exit" =>
            /\ last'.arg.v = "todo" => cal' = "running"
            /\ last'.arg.v = "cal" => todo' = "running"]_vars

----------------------------------------------------------------------------
(* Properties of the operating system's services, checked under SpecOs *)

\* The handler that ran last called StartupManager.enable() of widget w
EnableCalled(w) ==
    \/ /\ last.op = "settings"
       /\ last.arg.v = w
       /\ settings[w].startup.v
    \/ /\ w = "todo" /\ last.op = "load" /\ todo = "running"
       /\ Truthy(Get(settings.todo, "startup", DEFAULT_STARTUP))
    \/ /\ w = "cal" /\ last.op = "cal_init"
       /\ Truthy(Get(settings.cal, "startup", PyBool(TRUE)))

\* The handler that ran last called StartupManager.disable() of widget w
DisableCalled(w) ==
    /\ last.op = "settings"
    /\ last.arg.v = w
    /\ ~settings[w].startup.v

\* C14: enable after enable and disable after disable leave the auto-start
\* entries as the first call left them, disable without an entry changes
\* nothing, and is_enabled (called when the settings panel is built) changes
\* no state and is true exactly when the widget's entry exists
C14_StartupIdempotent ==
    [][\A w \in Widgets :
          /\ EnableCalled(w) /\ EnableCalled(w)' => registry' = registry
          /\ DisableCalled(w) /\ DisableCalled(w)' => registry' = registry
          /\ DisableCalled(w)' /\ APP_KEY(w) \notin registry =>
                registry' = registry
          /\ last'.op \in {"settings", "settings_cancelled"} /\ last'.arg.v = w =>
                last'.arg.startup_check = (APP_KEY(w) \in registry)
          /\ last'.op = "settings_cancelled" =>
                /\ registry' = registry
                /\ settings' = settings
                /\ settings_file' = settings_file]_vars

\* C14 witness: enable was called on a working registry that had the entry
\* (is_enabled had returned true), and the entry is there
C14_Witness ==
    /\ last.op = "settings"
    /\ os_env.winreg = "ok"
    /\ last.arg.startup_check
    /\ EnableCalled(last.arg.v)
    /\ APP_KEY(last.arg.v) \in registry

\* C15: a failure of the registry or of a notification is ignored: the
\* handler completes as if the call had done nothing; a reminder pass whose
\* send fails raises nothing, leaves the tasks as a pass with a silent send
\* leaves them, makes the send calls of all tasks that are due and saves
\* the collection
C15_OsFailuresIgnored ==
    /\ last.op = "reminders" =>
          /\ exc = "none"
          /\ todo = "running"
          /\ tasks = check_and_notify(last.before, now).tasks
          /\ Len(sent) = Len(Notified(last.before, now, 1))
          /\ file = save_tasks(tasks)
    /\ last.op = "settings" =>
          /\ Running(last.arg.v)
          /\ settings_file[last.arg.v] = save_settings(settings[last.arg.v])
    /\ last.op = "load" => todo = "running"

----------------------------------------------------------------------------
(* Properties of the settings, checked under SpecSettings *)

\* The constructor of widget w has just run
Constructed(w) ==
    \/ w = "todo" /\ last.op = "load"
    \/ w = "cal" /\ last.op = "cal_init"

\* The defaults of widget w overlaid with the keys of the JSON object m
Overlaid(w, m) ==
    LET defaults == SettingsDefaults(IF w = "todo" THEN "StorageManager"
                                     ELSE "CalStorage") IN
    [k \in DOMAIN defaults \cup DOMAIN m |->
        IF k \in DOMAIN m THEN m[k] ELSE defaults[k]]

\* C17: the settings a widget starts with have the default for every key
\* the settings file lacks and the persisted value for every key it has,
\* unknown keys included; with a missing or corrupt settings file the
\* widget starts with exactly the defaults, and nothing is raised
C17_LoadSettingsDefaults ==
    \A w \in Widgets :
        Constructed(w) =>
            LET f == settings_file[w] IN
            /\ f.kind \in {"missing", "malformed", "badutf8"} =>
                  /\ Running(w)
                  /\ settings[w] = Overlaid(w, <<>>)
            /\ f.kind = "json" /\ f.doc.t = "dict" =>
                  /\ Running(w)
                  /\ settings[w] = Overlaid(w, f.doc.v)

----------------------------------------------------------------------------
(* Further properties of the calendar widget, checked under SpecCal *)

\* The classes of a day cell, by the flags _do_rebuild_grid gives it
InClass(c, class) ==
    CASE class = "today"           -> c.is_today
      [] class = "past-in-month"   -> c.is_past /\ c.this_month
      [] class = "future-in-month" -> c.this_month /\ ~c.is_past /\ ~c.is_today
      [] class = "adjacent-month"  -> ~c.this_month

\* The colours DayCell._build chooses for a class
StyleOfClass(class) ==
    CASE class = "today"           -> "today"
      [] class = "past-in-month"   -> "past"
      [] class = "future-in-month" -> "normal"
      [] class = "adjacent-month"  -> "muted"

DayClasses == {"today", "past-in-month", "future-in-month", "adjacent-month"}

\* C18: every concrete day cell of the grid is in exactly one of the classes
\* today, past-in-month, future-in-month and adjacent-month, whatever the
\* cached today date; it is drawn in the colours of its class, and its
\* class is the one its date has against the cached today date
C18_CellInExactlyOneClass ==
    cal = "running" =>
        \A p \in Cells :
            LET c == grid[p[1]][p[2]] IN
            c.day # 0 =>
                /\ Cardinality({k \in DayClasses : InClass(c, k)}) = 1
                /\ \A k \in DayClasses : InClass(c, k) => c.style = StyleOfClass(k)
                /\ InClass(c, "today") <=> CellDate(p) = _today
                /\ InClass(c, "past-in-month") <=> DateLT(CellDate(p), _today)
                /\ InClass(c, "future-in-month") <=> DateLT(_today, CellDate(p))

\* C18 witness: the cached today date has rolled over and the grid shows
\* its month: it has the cell of today and a cell of a future day
C18_Witness ==
    /\ cal = "running"
    /\ _today # DateOf(StartTime)
    /\ \E p, q \in Cells :
          /\ InClass(grid[p[1]][p[2]], "today")
          /\ grid[q[1]][q[2]].day # 0
          /\ InClass(grid[q[1]][q[2]], "future-in-month")

NavigationOps == {"go_prev", "go_next", "jump", "go_today"}

\* C19, as claimed: every navigation action changes the cursor and rebuilds
\* the grid and leaves the due-date set, the cached today date and the
\* settings as they were; the due-date set changes only on the refresh tick
\* or the refresh of start-up
C19_NavigationChangesOnlyCursor ==
    [][/\ last'.op \in NavigationOps =>
            /\ _due_dates' = _due_dates
            /\ _today' = _today
            /\ settings' = settings
            /\ grid' = Rebuilt(_year', _month', _today', _due_dates')
       /\ _due_dates' # _due_dates => last'.op \in {"cal_tick", "cal_init"}]_vars

\* C19, amended: previous month, next month and jump change the cursor and
\* rebuild the grid and leave the due-date set, the cached today date and
\* the settings as they were; "today" does the same except that it also
\* sets the cached today date to the current date; the due-date set
\* changes only on the refresh tick or the refresh of start-up
C19_NavigationKeepsDueDates ==
    [][/\ last'.op \in NavigationOps =>
            /\ _due_dates' = _due_dates
            /\ _today' = IF last'.op = "go_today" THEN DateOf(now) ELSE _today
            /\ settings' = settings
            /\ settings_file' = settings_file
            /\ grid' = Rebuilt(_year', _month', _today', _due_dates')
       /\ _due_dates' # _due_dates => last'.op \in {"cal_tick", "cal_init"}]_vars

\* C19 witness: "today" was pressed after the date had rolled over; the
\* cached date has followed, the due-date set is still the one of the last
\* tick although the task file has changed since
C19_Witness ==
    /\ last.op = "go_today"
    /\ _today = DateOf(now)
    /\ _today # DateOf(StartTime)
    /\ _due_dates # load_due_dates(file)

\* The due dates of the open tasks of the task file f
OpenDueDates(f) ==
    {DateOf(fromisoformat(r.v["due"].v)) :
        r \in {x \in FileRecords(f) :
                 /\ x.t = "dict"
                 /\ "due" \in DOMAIN x.v
                 /\ x.v["due"].t = "str"
                 /\ IsoValid(x.v["due"].v)
                 /\ ("completed" \in DOMAIN x.v => ~Truthy(x.v["completed"]))}}

\* C20: right after each refresh tick the due-date set of the calendar is
\* the set of the due dates of the tasks of the task file, as it is at that
\* tick, that are not completed and have a due timestamp that parses, and
\* the grid shows that set: what the to-do widget has saved before a tick is
\* in the dots after it
C20_DueDatesFreshAfterTick ==
    last.op = "cal_tick" =>
        /\ _due_dates = OpenDueDates(file)
        /\ grid = Rebuilt(_year, _month, _today, OpenDueDates(file))

\* C20 witness: after a tick the calendar has the two due dates of a
\* collection the to-do widget saved while the calendar was running
C20_Witness ==
    /\ last.op = "cal_tick"
    /\ Cardinality(_due_dates) = 2
    /\ _due_dates = OpenDueDates(file)

----------------------------------------------------------------------------
(* Further properties of the reminder pass, checked under Spec *)

\* The task has a due text that datetime.fromisoformat rejects
BadDue(t) == Truthy(t.due) /\ ~IsoValid(t.due.v)

\* The i-th task was evaluated by the last pass as the reminder rule says
EvaluatedByRule(i) ==
    LET b == last.before[i] IN
    (Pending(b) /\ HasDueTime(b)) =>
        IF SecondsToDue(b, now) <= 0
        THEN /\ Cardinality(SentFor(i)) = 1
             /\ \A k \in SentFor(i) : sent[k].title = "Task Due"
             /\ tasks[i] = [b EXCEPT !.reminder_sent = PyBool(TRUE)]
        ELSE IF SecondsToDue(b, now) <= REMINDER_EARLY_WARNING_SECONDS
        THEN /\ Cardinality(SentFor(i)) = 1
             /\ \A k \in SentFor(i) : sent[k].title = "Task Due Soon"
             /\ tasks[i] = b
        ELSE SentFor(i) = {} /\ tasks[i] = b

\* C21: a task whose due text does not parse is skipped by the reminder
\* pass: no notification is sent for it, the task and its reminder_sent are
\* as before, and every other task of the pass, before and after it in the
\* collection, is evaluated
C21_BadDueSkipped ==
    last.op = "reminders" =>
        /\ Len(tasks) = Len(last.before)
        /\ exc = "none"
        /\ \A i \in 1..Len(last.before) :
              BadDue(last.before[i]) =>
                  /\ SentFor(i) = {}
                  /\ tasks[i] = last.before[i]
                  /\ \A j \in 1..Len(last.before) : EvaluatedByRule(j)

\* C21 witness: a pass has skipped an open task whose due text does not
\* parse and has sent a notification for a task that comes after it
C21_Witness ==
    /\ last.op = "reminders"
    /\ \E i, j \in 1..Len(last.before) :
          /\ i < j
          /\ Pending(last.before[i])
          /\ BadDue(last.before[i])
          /\ SentFor(i) = {}
          /\ tasks[i] = last.before[i]
          /\ SentFor(j) # {}

\* The reminder pass does not consider the task
NotConsidered(t) ==
    Truthy(t.completed) \/ Truthy(t.reminder_sent) \/ ~Truthy(t.due)

\* C22: a reminder pass sends no notification for a task that is completed,
\* has reminder_sent set or has no due timestamp, and leaves every field of
\* such a task as it was; every notification of a pass is for a task of the
\* collection that was open, not yet notified and had a due timestamp
C22_OnlyPendingDueConsidered ==
    last.op = "reminders" =>
        /\ Len(tasks) = Len(last.before)
        /\ \A i \in 1..Len(last.before) :
              NotConsidered(last.before[i]) =>
                  /\ SentFor(i) = {}
                  /\ tasks[i] = last.before[i]
        /\ \A k \in 1..Len(sent) :
              /\ sent[k].idx \in 1..Len(last.before)
              /\ ~NotConsidered(last.before[sent[k].idx])

\* C22 witness: a pass has left alone a completed task that was never
\* notified and whose due time had passed
C22_Witness ==
    /\ last.op = "reminders"
    /\ \E i \in 1..Len(last.before) :
          /\ Truthy(last.before[i].completed)
          /\ ~Truthy(last.before[i].reminder_sent)
          /\ HasDueTime(last.before[i])
          /\ SecondsToDue(last.before[i], now) <= 0
          /\ SentFor(i) = {}
          /\ tasks[i] = last.before[i]

\* C23: every reminder pass that runs to its end saves the whole collection
\* again, whether or not it has changed a task: after the pass the task
\* file is the text of the collection in memory, also when the file was
\* another text before and no task has changed
C23_ResavedAfterEveryPass ==
    [][(last'.op = "reminders" /\ exc' = "none") =>
          /\ file' = save_tasks(tasks')
          /\ (tasks' = tasks /\ file # save_tasks(tasks)) => file' # file]_vars

\* C23 witness: a pass that changed no task has left the file holding the
\* collection, which the file the widget started from did not
C23_Witness ==
    /\ last.op = "reminders"
    /\ tasks = last.before
    /\ Len(tasks) > 0
    /\ file = save_tasks(tasks)
    /\ file \notin InitFiles

----------------------------------------------------------------------------
(* Further properties of the handlers of the to-do widget, under Spec *)

\* The text has a character that is not a space
HasVisibleText(text) == \E k \in 1..Len(text) : text[k] # 32

\* C24: an add whose dialog was accepted with a title that has a character
\* other than white space appends exactly one task to the end of the
\* collection: its id is newly drawn and is the id of no task before, its
\* title is the entered text without the surrounding spaces, completed and
\* reminder_sent are false; the tasks before are unchanged and the file
\* holds the new collection.  A cancelled dialog or a title that is empty
\* or white space leaves the collection and the task file as they were.
C24_AddAppendsOneFreshTask ==
    [][\A accepted \in BOOLEAN, text \in TitleTexts, has_due \in BOOLEAN,
          due_dt \in DueChoices :
          _open_add_dialog(accepted, text, has_due, due_dt) =>
              IF accepted /\ HasVisibleText(text)
              THEN /\ Len(tasks') = Len(tasks) + 1
                   /\ SubSeq(tasks', 1, Len(tasks)) = tasks
                   /\ LET t == tasks'[Len(tasks')] IN
                      /\ t.id = Uuid(uuids')
                      /\ uuids' = uuids + 1
                      /\ \A i \in 1..Len(tasks) : tasks[i].id # t.id
                      /\ t.completed = PyBool(FALSE)
                      /\ t.reminder_sent = PyBool(FALSE)
                      /\ HasVisibleText(t.title.v)
                      /\ t.title.v[1] # 32
                      /\ t.title.v[Len(t.title.v)] # 32
                      /\ t.due = IF has_due THEN isoformat(due_dt) ELSE PyNone
                   /\ FileHolds(file', tasks')
              ELSE /\ tasks' = tasks
                   /\ file' = file
                   /\ uuids' = uuids]_vars

\* C24 witness: a task entered as " B " or "B" was appended after a task
\* that is as it was, and the file holds both
C24_Witness ==
    /\ last.op = "add"
    /\ Len(last.before) = 1
    /\ Len(tasks) = 2
    /\ tasks[1] = last.before[1]
    /\ tasks[2].title = PyStr(<<66>>)
    /\ tasks[2].id # tasks[1].id
    /\ ~Truthy(tasks[2].completed)
    /\ FileHolds(file, tasks)

----------------------------------------------------------------------------
(* The month cursor of the calendar, checked under SpecGrid *)

\* The number of the month m of the year y, counted from January of year 0
MonthIndex(y, m) == 12 * y + (m - 1)

\* C25: the month of the cursor is always one of 1..12; previous-month
\* moves the cursor to the month before and next-month to the month after,
\* so that one followed by the other restores the year and the month; the
\* year changes only on the step from January back to December or from
\* December on to January, and then by exactly one
C25_CursorStepsByOneMonth ==
    /\ [](_month \in 1..12)
    /\ [][last'.op \in {"go_prev", "go_next"} =>
            LET d == IF last'.op = "go_next" THEN 1 ELSE -1
                across == \/ last'.op = "go_next" /\ _month = 12 /\ _month' = 1
                          \/ last'.op = "go_prev" /\ _month = 1 /\ _month' = 12
            IN /\ MonthIndex(_year', _month') = MonthIndex(_year, _month) + d
               /\ _year' # _year <=> across
               /\ across => _year' = _year + d]_vars

\* C25 witness: next-month has stepped from December to January of the year
\* in which the calendar started in January: the cursor had been moved to
\* December by previous-month and is where it was
C25_Witness ==
    /\ last.op = "go_next"
    /\ StartTime.month = 1
    /\ _month = StartTime.month
    /\ _year = StartTime.year

\* The indices of the tasks before the last handler that have the id
WithId(task_id) ==
    {i \in 1..Len(last.before) : last.before[i].id = task_id}

\* C26: delete removes every task that has the given id and keeps the other
\* tasks, unchanged and in their order; toggle negates `completed` of the
\* first task that has the given id, changes no other task, and of the
\* toggled task no field but completed and reminder_sent; with an id that
\* no task has, both leave the collection as it was
C26_DeleteAndToggleFrame ==
    /\ last.op = "delete" =>
          LET keep == (1..Len(last.before)) \ WithId(last.arg) IN
          /\ Len(tasks) = Cardinality(keep)
          /\ \A i \in keep :
                tasks[Cardinality({j \in keep : j <= i})] = last.before[i]
    /\ last.op = "toggle" =>
          /\ Len(tasks) = Len(last.before)
          /\ \A i \in 1..Len(tasks) :
                IF i \in WithId(last.arg) /\ \A j \in WithId(last.arg) : i <= j
                THEN /\ tasks[i].completed =
                           PyBool(~Truthy(last.before[i].completed))
                     /\ [tasks[i] EXCEPT !.completed = PyNone,
                                         !.reminder_sent = PyNone]
                        = [last.before[i] EXCEPT !.completed = PyNone,
                                                 !.reminder_sent = PyNone]
                ELSE tasks[i] = last.before[i]
    /\ (last.op \in {"delete", "toggle"} /\ WithId(last.arg) = {}) =>
          tasks = last.before

\* C26 witness: a delete has removed both tasks of a collection, which had
\* the same id
C26_Witness ==
    /\ last.op = "delete"
    /\ Len(last.before) = 2
    /\ WithId(last.arg) = {1, 2}
    /\ tasks = <<>>

----------------------------------------------------------------------------
(* Properties of the history of the to-do widget, checked under SpecAudit *)

\* C27: an open task whose due time has passed and that was notified as due
\* before (so it has been completed and reopened since) gets a new
\* "Task Due" notification in the next reminder pass; and at any time the
\* number of "Task Due" notifications a task has had is at most one plus
\* the number of times it was reopened
C27_DueNowAgainAfterReopen ==
    /\ [](/\ Len(audit.notes) = Len(tasks)
          /\ \A i \in 1..Len(tasks) :
                audit.notes[i].due_now <= 1 + audit.notes[i].reopened)
    /\ [][last'.op = "reminders" =>
            \A i \in 1..Len(tasks) :
                (/\ audit.notes[i].due_now >= 1
                 /\ Pending(tasks[i])
                 /\ HasDueTime(tasks[i])
                 /\ SecondsToDue(tasks[i], now) <= 0) =>
                    /\ audit'.notes[i].due_now = audit.notes[i].due_now + 1
                    /\ audit.notes[i].reopened >= audit.notes[i].due_now
                    /\ \E k \in 1..Len(sent') :
                          sent'[k] = [title |-> "Task Due", idx |-> i]]_vars

\* C27 witness: a task has been notified as due three times and was
\* reopened twice
C27_Witness ==
    /\ last.op = "reminders"
    /\ \E i \in 1..Len(tasks) :
          /\ audit.notes[i].due_now = 3
          /\ audit.notes[i].reopened = 2
          /\ SentFor(i) # {}

\* The ids uuid4() has given so far
DrawnIds == {Uuid(k) : k \in 1..uuids}

\* C28: the task file is read at start-up only and every save writes the
\* collection in memory.  After a start from a corrupt file the collection
\* is empty; from then on it holds only tasks added since, never a task of
\* the corrupt file, and the first reminder pass, add, toggle or delete
\* replaces the corrupt text by the collection in memory.
C28_CorruptFileOverwritten ==
    /\ [][last'.op # "load" => (file' = file \/ file' = save_tasks(tasks'))]_vars
    /\ []((todo = "running" /\ audit.start \in CorruptFiles) =>
            /\ \A i \in 1..Len(tasks) : tasks[i].id \in DrawnIds
            /\ last.op = "load" => (tasks = <<>> /\ file = audit.start)
            /\ last.op \in {"add", "toggle", "delete", "reminders"} =>
                  (file = save_tasks(tasks) /\ file # audit.start))

\* C28 witness: the widget started from a file with a record of a task and
\* a record without title; the first reminder pass has written the empty
\* collection over it
C28_Witness ==
    /\ todo = "running"
    /\ audit.start \in CorruptFiles \ {Malformed}
    /\ last.op = "reminders"
    /\ tasks = <<>>
    /\ uuids = 0
    /\ file = save_tasks(<<>>)

----------------------------------------------------------------------------
(* The order of the task list, checked under SpecRows *)

\* The task of the k-th row
RowTask(k) == tasks[rows[k]]

\* The rows of the open tasks
OpenRows == {k \in 1..Len(rows) : ~Truthy(RowTask(k).completed)}

\* The handlers that end with _populate_tasks
RenderingOps == {"load", "add", "toggle", "delete", "settings"}

\* C29: the task list has one row for every task of the collection and no
\* other; the rows of the open tasks are above those of the completed
\* ones; the completed tasks are in the order of the collection; among the
\* open tasks those overdue when the list was built are first, those
\* with a due timestamp are in ascending order of it, and those without a
\* due timestamp are below all that have one
C29_RowsOrder ==
    todo = "running" =>
        /\ Len(rows) = Len(tasks)
        /\ {rows[k] : k \in 1..Len(rows)} = 1..Len(tasks)
        /\ \A k, l \in 1..Len(rows) :
              k < l =>
                  /\ l \in OpenRows => k \in OpenRows
                  /\ (k \notin OpenRows /\ l \notin OpenRows) => rows[k] < rows[l]
        /\ \A k, l \in OpenRows :
              k < l =>
                  /\ (last.op \in RenderingOps /\ is_overdue(RowTask(l), now)) =>
                        is_overdue(RowTask(k), now)
                  /\ (HasDueTime(RowTask(k)) /\ HasDueTime(RowTask(l))) =>
                        SecondsToDue(RowTask(k), now) <= SecondsToDue(RowTask(l), now)
                  /\ HasDueTime(RowTask(l)) => Truthy(RowTask(k).due)

\* C29 witness: after a toggle the list shows the overdue task, the task due
\* later and the task without due time, then the two completed tasks in
\* the order of the collection
C29_Witness ==
    /\ todo = "running"
    /\ last.op = "toggle"
    /\ Len(tasks) = 5
    /\ rows = <<4, 2, 1, 3, 5>>
    /\ is_overdue(tasks[4], now)
    /\ ~Truthy(tasks[1].due)

----------------------------------------------------------------------------
(* The re-entrancy guard of the calendar, checked under SpecRebuild *)

\* The calls of _rebuild_grid that are past the guard: a rebuild in progress
InProgress ==
    {i \in 1..Len(rebuild_calls) : rebuild_calls[i].pc # "test"}

\* C30: at most one call of _rebuild_grid is past the guard at any time;
\* _rebuilding is true exactly while one is, so it is false whenever no
\* rebuild is in progress, also after a rebuild that raised; and a call
\* that arrives while a rebuild is in progress returns at the guard and
\* leaves the grid and the flag as they are
C30_RebuildGuard ==
    /\ [](/\ Cardinality(InProgress) <= 1
          /\ _rebuilding <=> InProgress # {})
    /\ [][last'.op \in {"rebuild_dropped", "rebuild_entered"} =>
            IF InProgress # {}
            THEN /\ last'.op = "rebuild_dropped"
                 /\ rebuild_calls' = Returned
                 /\ grid' = grid
                 /\ _rebuilding' = _rebuilding
            ELSE last'.op = "rebuild_entered"]_vars
    /\ [][last'.op = "rebuild_done" =>
            ~_rebuilding' /\ InProgress' = {}]_vars

\* C30 witness: a call of _rebuild_grid made by a navigation button while
\* the old cells of a rebuild were removed has returned at the guard; the
\* rebuild is still in progress
C30_Witness ==
    /\ last.op = "rebuild_dropped"
    /\ _rebuilding
    /\ Len(rebuild_calls) = 1
    /\ TopCall.pc = "fill"
    /\ grid = <<>>

====
